---- MODULE Spec2Model ----
(***************************************************************************)
(* Thread-safe FIFO queues of cpp/multi_threading/ThreadSafeContainers:    *)
(* BluntQueue (one mutex and one condition over a std::deque) and          *)
(* FineQueue (singly linked list with a dummy tail node, headMutex_,       *)
(* tailMutex_ and one condition).  Threads run the member functions step   *)
(* by step; a step is one lock acquisition, one critical section up to the *)
(* next acquisition or release, or one notification.                       *)
(*                                                                         *)
(* Encoding of C++ values: element values are 1..MaxVal; Null (0) is the   *)
(* empty shared_ptr / nullptr / the value-initialised int of the tests     *)
(* (int front{}); a bool result is 1 (true) or 0 (false).                  *)
(***************************************************************************)
EXTENDS Integers, Sequences, FiniteSets, TLC

\* ------------------------------------------------------------------ bounds
NumThreads == 2      \* threads of a free-running specification
MaxOps == 3          \* member-function calls the threads of a free-running specification make in all
MaxVal == 2          \* distinct element values
MaxInit == 2         \* longest initializer list
NumQueues == 2       \* queue instances of each class
MaxSpurious == 1     \* spurious wakeups one call of wait_and_pop may see

Workers == 1..NumThreads                                   \* the free-running threads
Threads == 1..(IF NumThreads > 3 THEN NumThreads ELSE 3)   \* the tests use up to three threads
Values == 1..MaxVal
Queues == 1..NumQueues

Null == 0

VARIABLES
    \* BluntQueue<T>, one entry per instance
    storage_,       \* std::deque<T>: sequence of values
    mutex_,         \* owner thread of mutex_, or Null
    isPopulated_,   \* threads blocked inside isPopulated_.wait
    \* FineQueue<T>, one entry per instance
    head_,          \* std::unique_ptr<Node>: node id or Null
    tail_,          \* Node*: node id or Null
    headMutex_,     \* owner thread or Null
    tailMutex_,     \* owner thread or Null
    isPoppable_,    \* threads blocked inside isPoppable_.wait
    \* the heap of FineQueue<T>::Node
    alive,          \* allocated nodes
    data_,          \* Node::data_ : value or Null
    next_,          \* Node::next_ : node id or Null
    \* threads
    todo,           \* the calls a thread still has to make, the first one running
    left,           \* calls the free-running threads may still choose, in all
    pc,             \* position inside the running call
    loc,            \* locals of the running call
    out,            \* the caller's T& argument
    ret,            \* result of the thread's last completed call
    made,           \* elements of the queue the thread's last copy construction built
    ub,             \* a null or freed node has been dereferenced: behaviour undefined from here
    \* history, written at the step that appends or removes an element
    hPushed,        \* per class and queue: values appended so far (initializer list first)
    hPopped,        \* per class and queue: results of the pops in removal order (Null: "no value")
    popBegun,       \* some pop has taken its first step
    overlap,        \* some push took a step after a pop had begun
    tracking,       \* whether the run keeps the history (single-queue push/pop runs)
    scen,           \* name of the scripted scenario, "" when free-running
    \* ThreadStorage, the std::vector<std::thread> of the test body
    threads,        \* per slot: "empty" (no thread), "joinable" or "joined"; <<>>: no storage
    main            \* the thread of the test body: its position and the iterator t of
                    \* ~ThreadStorage

vars == <<storage_, mutex_, isPopulated_, head_, tail_, headMutex_, tailMutex_,
          isPoppable_, alive, data_, next_, todo, left, pc, loc, out, ret, made, ub,
          hPushed, hPopped, popBegun, overlap, tracking, scen, threads, main>>

lockVars == <<mutex_, headMutex_, tailMutex_>>
fineVars == <<head_, tail_, isPoppable_, alive, data_, next_>>

\* ----------------------------------------------------------------- helpers
RECURSIVE SeqsUpTo(_)
SeqsUpTo(n) ==
    IF n = 0 THEN {<<>>}
    ELSE LET S == SeqsUpTo(n - 1)
         IN  S \cup {Append(s, v) : s \in {x \in S : Len(x) = n - 1}, v \in Values}

Bool(b) == IF b THEN 1 ELSE 0

Min(S) == CHOOSE x \in S : \A y \in S : x <= y

\* The test body when the run has no ThreadStorage.
NoMain == [pc |-> "none", t |-> 0]

NoLoc == [i |-> Null, tl |-> Null, nw |-> Null, h |-> Null, t |-> Null, len |-> 0, sw |-> 0,
          seen |-> <<>>]

\* A call: op is the member function, k the class ("B" BluntQueue, "F" FineQueue,
\* "S" the move operations of ThreadSafeQueue, whose other members are BluntQueue's),
\* q the instance it is called on, o the other instance (0 if none), v the value
\* pushed (0 if none), f the form of a pop ("val" returns a shared_ptr, "ref"
\* fills the caller's T&).
Call(op, k, q, o, v, f) == [op |-> op, k |-> k, q |-> q, o |-> o, v |-> v, f |-> f]

Active(t) == todo[t] # <<>>
Cur(t) == Head(todo[t])
AllDone == left = 0 /\ \A t \in Threads : ~Active(t)

IsPop(c) == c.op \in {"try_pop", "wait_and_pop"}
IsPush(c) == c.op \in {"push", "emplace"}

\* The running call of t returns r.
Return(t, r) ==
    /\ todo' = [todo EXCEPT ![t] = Tail(@)]
    /\ pc' = [pc EXCEPT ![t] = "start"]
    /\ loc' = [loc EXCEPT ![t] = NoLoc]
    /\ ret' = [ret EXCEPT ![t] = r]

\* History of a step of thread t inside its running call: a pop has begun once
\* it took a step; a push overlaps the pops if it takes a step after that.
NoteCall(t) ==
    /\ popBegun' = (popBegun \/ (tracking /\ IsPop(Cur(t))))
    /\ overlap' = (overlap \/ (popBegun /\ IsPush(Cur(t))))
    /\ UNCHANGED <<tracking, scen, left, threads, main>>

Note(t) ==
    /\ NoteCall(t)
    /\ UNCHANGED <<made, ub>>

\* History of the step that appends v to queue q of class k / that ends a pop
\* of queue q of class k with result r (Null: "no value").
NotePush(k, q, v) ==
    /\ hPushed' = IF tracking THEN [hPushed EXCEPT ![k][q] = Append(@, v)] ELSE hPushed
    /\ UNCHANGED hPopped

NotePop(k, q, r) ==
    /\ hPopped' = IF tracking THEN [hPopped EXCEPT ![k][q] = Append(@, r)] ELSE hPopped
    /\ UNCHANGED hPushed

\* ------------------------------------------------------------------- locks
\* The mutexes: M(q) is BluntQueue q's mutex_, H(q) and T(q) are FineQueue q's
\* headMutex_ and tailMutex_.
M(q) == <<"M", q>>
H(q) == <<"H", q>>
T(q) == <<"T", q>>

Owner(l) ==
    IF l[1] = "M" THEN mutex_[l[2]]
    ELSE IF l[1] = "H" THEN headMutex_[l[2]]
    ELSE tailMutex_[l[2]]

Range(s) == {s[i] : i \in DOMAIN s}
NoDup(s) == \A i, j \in DOMAIN s : s[i] = s[j] => i = j

\* Thread t takes the locks acq and gives up the locks rel.
SetLocks(t, acq, rel) ==
    /\ mutex_' = [q \in Queues |->
          IF M(q) \in acq THEN t ELSE IF M(q) \in rel THEN Null ELSE mutex_[q]]
    /\ headMutex_' = [q \in Queues |->
          IF H(q) \in acq THEN t ELSE IF H(q) \in rel THEN Null ELSE headMutex_[q]]
    /\ tailMutex_' = [q \in Queues |->
          IF T(q) \in acq THEN t ELSE IF T(q) \in rel THEN Null ELSE tailMutex_[q]]

\* A wrong multi-lock acquisition: the mutexes one at a time in argument order,
\* each kept while the thread blocks on the next.
GrabInArgumentOrder(t, want) ==
    LET missing == {i \in DOMAIN want : Owner(want[i]) # t}
    IN  IF missing # {} /\ Owner(want[Min(missing)]) = Null
        THEN {want[Min(missing)]}
        ELSE {}

\* std::lock_guard / std::unique_lock on one mutex, std::scoped_lock on several:
\* the locks thread t obtains in one step when it asks for the mutexes `want`
\* (a sequence, in argument order).  std::scoped_lock uses std::lock, which
\* holds none of the mutexes while it blocks: the thread gets all of them or
\* none.  Naming one mutex twice never succeeds.
Grab(t, want) ==
    IF NoDup(want) /\ \A i \in DOMAIN want : Owner(want[i]) = Null
    THEN Range(want)
    ELSE {}

\* The mutexes thread t is asking for at its current position (<<>> if none).
Wants(t) ==
    IF ~Active(t) THEN <<>>
    ELSE LET c == Cur(t) IN
      IF c.k = "S" THEN
        IF pc[t] = "start" /\ c.op = "move_assign" THEN <<M(c.q)>> ELSE <<>>
      ELSE IF c.k = "B" THEN
        IF pc[t] = "start" THEN
            IF c.op \in {"push", "emplace", "try_pop", "wait_and_pop", "empty", "size"}
            THEN <<M(c.q)>>
            ELSE IF c.op \in {"copy_ctor", "move_ctor"} THEN <<M(c.o)>>
            ELSE <<M(c.q), M(c.o)>>
        ELSE IF pc[t] = "wake" THEN <<M(c.q)>>
        ELSE <<>>
      ELSE
        IF pc[t] = "start" THEN
            IF c.op \in {"try_pop", "wait_and_pop", "size", "empty"} THEN <<H(c.q)>>
            ELSE IF c.op = "move_assign" THEN <<H(c.q), T(c.q)>>
            ELSE IF c.op \in {"swap", "equal"} THEN <<H(c.q), T(c.q), H(c.o), T(c.o)>>
            ELSE <<>>
        ELSE IF pc[t] = "wake" THEN <<H(c.q)>>
        ELSE IF pc[t] = "lock_tail" THEN <<T(c.q)>>
        ELSE IF pc[t] = "lock_src" THEN <<H(c.o)>>
        ELSE IF pc[t] = "lock_self" THEN <<H(c.q), T(c.q)>>
        ELSE IF pc[t] = "gt_lock" THEN
            <<T(IF c.op \in {"copy_ctor", "copy_assign"} THEN c.o ELSE c.q)>>
        ELSE <<>>

Blocked(t) == Wants(t) # <<>> /\ Grab(t, Wants(t)) = {}

\* One step of the acquisition thread t is in; `after` is where it continues
\* once it holds every mutex it asked for.
Acquire(t, after) ==
    LET want == Wants(t)
        g == Grab(t, want)
    IN  /\ g # {}
        /\ SetLocks(t, g, {})
        /\ pc' = [pc EXCEPT ![t] =
              IF \A i \in DOMAIN want : want[i] \in g \/ Owner(want[i]) = t
              THEN after ELSE @]

Running(t, k, ops, at) ==
    /\ ~ub
    /\ Active(t)
    /\ Cur(t).k = k
    /\ Cur(t).op \in ops
    /\ pc[t] = at

\* std::condition_variable::notify_one: one of the threads blocked in wait(),
\* if there is any, is made runnable and must reacquire the mutex.
NotifyOne(waiters, w) ==
    IF waiters = {} THEN w = Null ELSE w \in waiters

Woken(w, p) == IF w = Null THEN p ELSE [p EXCEPT ![w] = "wake"]

\* A step that only acquires.
LockStep(t, after) ==
    /\ Acquire(t, after)
    /\ Note(t)
    /\ UNCHANGED <<storage_, isPopulated_, head_, tail_, isPoppable_, alive, data_, next_,
                   todo, loc, out, ret, hPushed, hPopped>>

\* -------------------------------------------------------------- BluntQueue
\* push / emplace: lock_guard, push_back / emplace_back, unlock, notify_one.
Blunt_push_lock(t) ==
    /\ Running(t, "B", {"push"}, "start")
    /\ LockStep(t, "crit")

Blunt_emplace_lock(t) ==
    /\ Running(t, "B", {"emplace"}, "start")
    /\ LockStep(t, "crit")

Blunt_push_back(t) ==
    LET c == Cur(t) IN
    /\ storage_' = [storage_ EXCEPT ![c.q] = Append(@, c.v)]
    /\ SetLocks(t, {}, {M(c.q)})
    /\ pc' = [pc EXCEPT ![t] = "notify"]
    /\ NotePush("B", c.q, c.v)
    /\ Note(t)
    /\ UNCHANGED <<isPopulated_, fineVars, todo, loc, out, ret>>

Blunt_push(t) ==
    /\ Running(t, "B", {"push"}, "crit")
    /\ Blunt_push_back(t)

Blunt_emplace(t) ==
    /\ Running(t, "B", {"emplace"}, "crit")
    /\ Blunt_push_back(t)

\* isPopulated_.notify_one() of queue q by thread t, which then continues at `after`
\* (or returns r if after = "return").
Blunt_notify_one(t, q, after, r) ==
    \E w \in Threads \cup {Null} :
        /\ NotifyOne(isPopulated_[q], w)
        /\ isPopulated_' = [isPopulated_ EXCEPT ![q] = @ \ {w}]
        /\ IF after = "return"
           THEN /\ todo' = [todo EXCEPT ![t] = Tail(@)]
                /\ pc' = [Woken(w, pc) EXCEPT ![t] = "start"]
                /\ loc' = [loc EXCEPT ![t] = NoLoc]
                /\ ret' = [ret EXCEPT ![t] = r]
           ELSE /\ pc' = [Woken(w, pc) EXCEPT ![t] = after]
                /\ UNCHANGED <<todo, loc, ret>>
        /\ Note(t)
        /\ UNCHANGED <<storage_, mutex_, headMutex_, tailMutex_, head_, tail_, isPoppable_,
                       alive, data_, next_, out, hPushed, hPopped>>

\* A push that returns without the notification.
Blunt_push_return_unnotified(t) ==
    /\ Running(t, "B", {"push", "emplace"}, "notify")
    /\ Return(t, Null)
    /\ Note(t)
    /\ UNCHANGED <<storage_, isPopulated_, lockVars, fineVars, out, hPushed, hPopped>>

Blunt_push_notify(t) ==
    /\ Running(t, "B", {"push", "emplace"}, "notify")
    /\ Blunt_notify_one(t, Cur(t).q, "return", Null)

\* The front element leaves the deque of queue q and goes to the caller of form f:
\* value = std::move(front) for "ref", value.reset(new T{...}) for "val".
Blunt_pop_front(t, q, f) ==
    LET x == Head(storage_[q]) IN
    /\ storage_' = [storage_ EXCEPT ![q] = Tail(@)]
    /\ out' = IF f = "ref" THEN [out EXCEPT ![t] = x] ELSE out
    /\ Return(t, IF f = "ref" THEN Bool(TRUE) ELSE x)
    /\ NotePop("B", q, x)

\* A try_pop(T&) that value-initialises the caller's argument when the queue is empty.
Blunt_try_pop_clears_output(t) ==
    LET c == Cur(t) IN
    /\ Running(t, "B", {"try_pop"}, "crit")
    /\ IF storage_[c.q] = <<>>
       THEN /\ Return(t, IF c.f = "ref" THEN Bool(FALSE) ELSE Null)
            /\ NotePop("B", c.q, Null)
            /\ out' = IF c.f = "ref" THEN [out EXCEPT ![t] = Null] ELSE out
            /\ UNCHANGED storage_
       ELSE Blunt_pop_front(t, c.q, c.f)
    /\ SetLocks(t, {}, {M(c.q)})
    /\ Note(t)
    /\ UNCHANGED <<isPopulated_, fineVars>>

\* try_pop: lock_guard; empty: return false / an empty pointer; else pop the front.
Blunt_try_pop_lock(t) ==
    /\ Running(t, "B", {"try_pop"}, "start")
    /\ LockStep(t, "crit")

\* A try_pop that waits on the condition when it finds the queue empty.
Blunt_try_pop_waits(t) ==
    LET c == Cur(t) IN
    /\ Running(t, "B", {"try_pop"}, "crit")
    /\ IF storage_[c.q] = <<>>
       THEN /\ pc' = [pc EXCEPT ![t] = "park"]
            /\ UNCHANGED <<storage_, lockVars, out, todo, loc, ret, hPushed, hPopped>>
       ELSE /\ Blunt_pop_front(t, c.q, c.f)
            /\ SetLocks(t, {}, {M(c.q)})
    /\ Note(t)
    /\ UNCHANGED <<isPopulated_, fineVars>>

Blunt_try_pop(t) ==
    LET c == Cur(t) IN
    /\ Running(t, "B", {"try_pop"}, "crit")
    /\ IF storage_[c.q] = <<>>
       THEN /\ Return(t, IF c.f = "ref" THEN Bool(FALSE) ELSE Null)
            /\ NotePop("B", c.q, Null)
            /\ UNCHANGED <<storage_, out>>
       ELSE Blunt_pop_front(t, c.q, c.f)
    /\ SetLocks(t, {}, {M(c.q)})
    /\ Note(t)
    /\ UNCHANGED <<isPopulated_, fineVars>>

\* wait_and_pop: unique_lock; isPopulated_.wait(lock, !storage_.empty()); pop the front.
Blunt_wait_and_pop_lock(t) ==
    /\ Running(t, "B", {"wait_and_pop"}, "start")
    /\ LockStep(t, "pred")

\* The predicate of the wait, evaluated under the mutex.
Blunt_wait_and_pop(t) ==
    LET c == Cur(t) IN
    /\ Running(t, "B", {"wait_and_pop"}, "pred")
    /\ IF storage_[c.q] # <<>>
       THEN /\ Blunt_pop_front(t, c.q, c.f)
            /\ SetLocks(t, {}, {M(c.q)})
       ELSE /\ pc' = [pc EXCEPT ![t] = "park"]
            /\ UNCHANGED <<storage_, mutex_, headMutex_, tailMutex_, out, todo, loc, ret,
                           hPushed, hPopped>>
    /\ Note(t)
    /\ UNCHANGED <<isPopulated_, fineVars>>

\* condition_variable::wait(lock): release the mutex and block, atomically.
Blunt_wait_block(t) ==
    LET c == Cur(t) IN
    /\ Running(t, "B", {"wait_and_pop"}, "park")
    /\ isPopulated_' = [isPopulated_ EXCEPT ![c.q] = @ \cup {t}]
    /\ SetLocks(t, {}, {M(c.q)})
    /\ pc' = [pc EXCEPT ![t] = "parked"]
    /\ Note(t)
    /\ UNCHANGED <<storage_, head_, tail_, isPoppable_, alive, data_, next_,
                   todo, loc, out, ret, hPushed, hPopped>>

\* A woken thread that reacquires the mutex and pops without evaluating the predicate
\* again (pop_front of an empty deque is undefined).
Blunt_wait_reacquire_unchecked(t) ==
    LET c == Cur(t) IN
    /\ Running(t, "B", {"wait_and_pop"}, "wake")
    /\ Grab(t, Wants(t)) # {}
    /\ IF storage_[c.q] = <<>>
       THEN /\ ub' = TRUE
            /\ UNCHANGED <<storage_, lockVars, isPopulated_, fineVars, todo, left, pc, loc,
                           out, ret, made, hPushed, hPopped, popBegun, overlap, tracking, scen,
                           threads, main>>
       ELSE /\ Blunt_pop_front(t, c.q, c.f)
            /\ Note(t)
            /\ UNCHANGED <<isPopulated_, lockVars, fineVars>>

\* A woken thread reacquires the mutex and evaluates the predicate again.
Blunt_wait_reacquire(t) ==
    /\ Running(t, "B", {"wait_and_pop"}, "wake")
    /\ LockStep(t, "pred")

\* wait() may return without a notification (a spurious wakeup).
Blunt_spurious_wakeup(t) ==
    LET c == Cur(t) IN
    /\ Running(t, "B", {"wait_and_pop"}, "parked")
    /\ t \in isPopulated_[c.q]
    /\ loc[t].sw < MaxSpurious
    /\ loc' = [loc EXCEPT ![t].sw = @ + 1]
    /\ isPopulated_' = [isPopulated_ EXCEPT ![c.q] = @ \ {t}]
    /\ pc' = [pc EXCEPT ![t] = "wake"]
    /\ Note(t)
    /\ UNCHANGED <<storage_, mutex_, headMutex_, tailMutex_, head_, tail_, isPoppable_,
                   alive, data_, next_, todo, out, ret, hPushed, hPopped>>

\* operator=(const BluntQueue&): scoped_lock{mutex_, other.mutex_}; assign; notify_one.
Blunt_copy_assign_lock(t) ==
    /\ Running(t, "B", {"copy_assign"}, "start")
    /\ LockStep(t, "crit")

Blunt_copy_assign(t) ==
    LET c == Cur(t) IN
    /\ Running(t, "B", {"copy_assign"}, "crit")
    /\ storage_' = [storage_ EXCEPT ![c.q] = storage_[c.o]]
    /\ SetLocks(t, {}, {M(c.q), M(c.o)})
    /\ pc' = [pc EXCEPT ![t] = "notify"]
    /\ Note(t)
    /\ UNCHANGED <<isPopulated_, fineVars, todo, loc, out, ret, hPushed, hPopped>>

\* operator=(BluntQueue&&): scoped_lock{mutex_, other.mutex_}; storage_ = std::move(...).
\* The moved-from deque is left empty.
Blunt_move_assign_lock(t) ==
    /\ Running(t, "B", {"move_assign"}, "start")
    /\ LockStep(t, "crit")

Blunt_move_assign(t) ==
    LET c == Cur(t) IN
    /\ Running(t, "B", {"move_assign"}, "crit")
    /\ storage_' = [storage_ EXCEPT ![c.q] = storage_[c.o], ![c.o] = <<>>]
    /\ SetLocks(t, {}, {M(c.q), M(c.o)})
    /\ pc' = [pc EXCEPT ![t] = "notify"]
    /\ Note(t)
    /\ UNCHANGED <<isPopulated_, fineVars, todo, loc, out, ret, hPushed, hPopped>>

\* BluntQueue(const BluntQueue& other): lock_guard{other.mutex_}; storage_.assign(other...).
\* The elements of the new queue are kept in `made`; the model destroys the queue
\* object itself.
\* A copy construction that reads other.storage_ without other.mutex_.
Blunt_copy_ctor_unlocked(t) ==
    /\ Running(t, "B", {"copy_ctor"}, "start")
    /\ pc' = [pc EXCEPT ![t] = "crit"]
    /\ Note(t)
    /\ UNCHANGED <<storage_, isPopulated_, lockVars, fineVars, todo, loc, out, ret,
                   hPushed, hPopped>>

Blunt_copy_ctor_lock(t) ==
    /\ Running(t, "B", {"copy_ctor"}, "start")
    /\ LockStep(t, "crit")

Blunt_copy_ctor(t) ==
    LET c == Cur(t) IN
    /\ Running(t, "B", {"copy_ctor"}, "crit")
    /\ made' = [made EXCEPT ![t] = storage_[c.o]]
    /\ Return(t, Null)
    /\ SetLocks(t, {}, {M(c.o)})
    /\ NoteCall(t)
    /\ UNCHANGED <<storage_, isPopulated_, fineVars, out, ub, hPushed, hPopped>>

\* BluntQueue(BluntQueue&& other): lock_guard{other.mutex_}; storage_ = std::move(other.storage_).
Blunt_move_ctor_lock(t) ==
    /\ Running(t, "B", {"move_ctor"}, "start")
    /\ LockStep(t, "crit")

\* A move construction that copies and leaves the source as it was.
Blunt_move_ctor_keeps_source(t) ==
    LET c == Cur(t) IN
    /\ Running(t, "B", {"move_ctor"}, "crit")
    /\ made' = [made EXCEPT ![t] = storage_[c.o]]
    /\ Return(t, Null)
    /\ SetLocks(t, {}, {M(c.o)})
    /\ NoteCall(t)
    /\ UNCHANGED <<storage_, isPopulated_, fineVars, out, ub, hPushed, hPopped>>

Blunt_move_ctor(t) ==
    LET c == Cur(t) IN
    /\ Running(t, "B", {"move_ctor"}, "crit")
    /\ made' = [made EXCEPT ![t] = storage_[c.o]]
    /\ storage_' = [storage_ EXCEPT ![c.o] = <<>>]
    /\ Return(t, Null)
    /\ SetLocks(t, {}, {M(c.o)})
    /\ NoteCall(t)
    /\ UNCHANGED <<isPopulated_, fineVars, out, ub, hPushed, hPopped>>

\* An assignment that returns without the notification.
Blunt_assign_return_unnotified(t) ==
    /\ Running(t, "B", {"copy_assign", "move_assign"}, "notify")
    /\ Return(t, Null)
    /\ Note(t)
    /\ UNCHANGED <<storage_, isPopulated_, lockVars, fineVars, out, hPushed, hPopped>>

Blunt_assign_notify(t) ==
    /\ Running(t, "B", {"copy_assign", "move_assign"}, "notify")
    /\ Blunt_notify_one(t, Cur(t).q, "return", Null)

\* swap: scoped_lock{mutex_, other.mutex_}; storage_.swap; notify_one on both.
Blunt_swap_lock(t) ==
    /\ Running(t, "B", {"swap"}, "start")
    /\ LockStep(t, "crit")

\* A swap that only takes: the other queue keeps its elements.
Blunt_swap_one_way(t) ==
    LET c == Cur(t) IN
    /\ Running(t, "B", {"swap"}, "crit")
    /\ storage_' = [storage_ EXCEPT ![c.q] = storage_[c.o]]
    /\ SetLocks(t, {}, {M(c.q), M(c.o)})
    /\ pc' = [pc EXCEPT ![t] = "notify"]
    /\ Note(t)
    /\ UNCHANGED <<isPopulated_, fineVars, todo, loc, out, ret, hPushed, hPopped>>

Blunt_swap(t) ==
    LET c == Cur(t) IN
    /\ Running(t, "B", {"swap"}, "crit")
    /\ storage_' = [storage_ EXCEPT ![c.q] = storage_[c.o], ![c.o] = storage_[c.q]]
    /\ SetLocks(t, {}, {M(c.q), M(c.o)})
    /\ pc' = [pc EXCEPT ![t] = "notify"]
    /\ Note(t)
    /\ UNCHANGED <<isPopulated_, fineVars, todo, loc, out, ret, hPushed, hPopped>>

Blunt_swap_notify(t) ==
    /\ Running(t, "B", {"swap"}, "notify")
    /\ Blunt_notify_one(t, Cur(t).q, "notify2", Null)

Blunt_swap_notify_other(t) ==
    /\ Running(t, "B", {"swap"}, "notify2")
    /\ Blunt_notify_one(t, Cur(t).o, "return", Null)

\* operator==: scoped_lock{one.mutex_, other.mutex_}; one.storage_ == other.storage_.
Blunt_equal_lock(t) ==
    /\ Running(t, "B", {"equal"}, "start")
    /\ LockStep(t, "crit")

Blunt_equal(t) ==
    LET c == Cur(t) IN
    /\ Running(t, "B", {"equal"}, "crit")
    /\ Return(t, Bool(storage_[c.q] = storage_[c.o]))
    /\ SetLocks(t, {}, {M(c.q), M(c.o)})
    /\ Note(t)
    /\ UNCHANGED <<storage_, isPopulated_, fineVars, out, hPushed, hPopped>>

\* empty(): lock_guard{mutex_}; storage_.empty().
Blunt_empty_lock(t) ==
    /\ Running(t, "B", {"empty"}, "start")
    /\ LockStep(t, "crit")

Blunt_empty(t) ==
    LET c == Cur(t) IN
    /\ Running(t, "B", {"empty"}, "crit")
    /\ Return(t, Bool(storage_[c.q] = <<>>))
    /\ SetLocks(t, {}, {M(c.q)})
    /\ Note(t)
    /\ UNCHANGED <<storage_, isPopulated_, fineVars, out, hPushed, hPopped>>

\* size(): lock_guard{mutex_}; storage_.size().
Blunt_size_lock(t) ==
    /\ Running(t, "B", {"size"}, "start")
    /\ LockStep(t, "crit")

Blunt_size(t) ==
    LET c == Cur(t) IN
    /\ Running(t, "B", {"size"}, "crit")
    /\ Return(t, Len(storage_[c.q]))
    /\ SetLocks(t, {}, {M(c.q)})
    /\ Note(t)
    /\ UNCHANGED <<storage_, isPopulated_, fineVars, out, hPushed, hPopped>>

\* --------------------------------------------------- FineQueue: the node heap
HeapNow == [alive |-> alive, data |-> data_, next |-> next_]

SetHeap(hp) ==
    /\ alive' = hp.alive
    /\ data_' = hp.data
    /\ next_' = hp.next

\* std::make_unique<Node>(): a fresh node, data_ and next_ empty.
NewNode(hp) == Min((1..(Cardinality(hp.alive) + 1)) \ hp.alive)
AllocNode(hp) ==
    LET n == NewNode(hp) IN
    [alive |-> hp.alive \cup {n},
     data |-> [m \in hp.alive \cup {n} |-> IF m = n THEN Null ELSE hp.data[m]],
     next |-> [m \in hp.alive \cup {n} |-> IF m = n THEN Null ELSE hp.next[m]]]

\* The nodes a unique_ptr<Node> owns: the node and, through next_, its successors.
RECURSIVE ChainOf(_, _)
ChainOf(hp, n) ==
    IF n = Null \/ n \notin hp.alive THEN {}
    ELSE {n} \cup ChainOf([hp EXCEPT !.alive = @ \ {n}], hp.next[n])

\* Destruction of the nodes S.
FreeNodes(hp, S) ==
    [alive |-> hp.alive \ S,
     data |-> [n \in hp.alive \ S |-> hp.data[n]],
     next |-> [n \in hp.alive \ S |-> hp.next[n]]]

\* A node pointer that may be dereferenced.
Valid(hp, n) == n # Null /\ n \in hp.alive

\* A populate that links the new node but leaves the data in the new tail node.
populate_data_in_new_tail(hp, d, nx, tl) ==
    [hp EXCEPT !.data[nx] = d, !.next[tl] = nx]

\* populate(data, next, tail): tail->data_ = data; tail->next_ = next (whatever
\* tail->next_ owned before is destroyed); the caller's tail becomes `nx`.
populate(hp, d, nx, tl) ==
    FreeNodes([hp EXCEPT !.data[tl] = d, !.next[tl] = nx], ChainOf(hp, hp.next[tl]))

\* A pop_head that keeps the old head node and unlinks its successor instead.
pop_head_drop_second(hp, h) ==
    LET s == hp.next[h] IN
    IF s = Null THEN [heap |-> hp, head |-> h]
    ELSE [heap |-> FreeNodes([hp EXCEPT !.next[h] = hp.next[s]], {s}), head |-> h]

\* pop_head(): oldHead_ takes head_, head_ takes oldHead_->next_, oldHead_ is destroyed.
pop_head(hp, h) ==
    [heap |-> FreeNodes(hp, {h}), head |-> hp.next[h]]

\* FineQueue(std::initializer_list<T>): a dummy node, then one populate per value.
\* Yields the heap and the head_ and tail_ of the new queue.
RECURSIVE PopulateAll(_, _, _)
PopulateAll(hp, items, tl) ==
    IF items = <<>> THEN [heap |-> hp, tail |-> tl]
    ELSE LET nx == NewNode(hp)
         IN  PopulateAll(populate(AllocNode(hp), Head(items), nx, tl), Tail(items), nx)

FineQueue_list(hp, items) ==
    LET h == NewNode(hp)
        r == PopulateAll(AllocNode(hp), items, h)
    IN  [heap |-> r.heap, head |-> h, tail |-> r.tail]

\* The elements between node n and node tl, following next_ (what a walk from head_
\* to tail_ sees); the walk ends at a null or destroyed node.
RECURSIVE Elements(_, _, _)
Elements(hp, n, tl) ==
    IF n = tl \/ ~Valid(hp, n) THEN <<>>
    ELSE <<hp.data[n]>> \o Elements([hp EXCEPT !.alive = @ \ {n}], hp.next[n], tl)

Content(q) == Elements(HeapNow, head_[q], tail_[q])

\* ----------------------------------------------------------------- FineQueue
\* Dereferencing a null or destroyed node: undefined behaviour.  The run is
\* not followed any further.
Crash ==
    /\ ub' = TRUE
    /\ UNCHANGED <<storage_, mutex_, isPopulated_, head_, tail_, headMutex_, tailMutex_,
                   isPoppable_, alive, data_, next_, todo, left, pc, loc, out, ret, made,
                   hPushed, hPopped, popBegun, overlap, tracking, scen, threads, main>>

\* The queue whose tail the running call asks for in get_tail().
TailOf(c) == IF c.op \in {"copy_ctor", "copy_assign"} THEN c.o ELSE c.q

\* A get_tail() whose result is lost: the caller compares with a null pointer.
Fine_get_tail_lost(t) ==
    /\ Running(t, "F", {"try_pop", "wait_and_pop", "size", "empty", "copy_ctor", "copy_assign"}, "gt_lock")
    /\ Grab(t, Wants(t)) # {}
    /\ loc' = [loc EXCEPT ![t].tl = Null]
    /\ pc' = [pc EXCEPT ![t] = "gt_done"]
    /\ Note(t)
    /\ UNCHANGED <<storage_, isPopulated_, lockVars, fineVars, todo, out, ret, hPushed, hPopped>>

\* get_tail(): lock_guard{tailMutex_}; return tail_.
Fine_get_tail(t) ==
    LET c == Cur(t) IN
    /\ Running(t, "F", {"try_pop", "wait_and_pop", "size", "empty", "copy_ctor", "copy_assign"}, "gt_lock")
    /\ Grab(t, Wants(t)) # {}
    /\ loc' = [loc EXCEPT ![t].tl = tail_[TailOf(c)]]
    /\ pc' = [pc EXCEPT ![t] = "gt_done"]
    /\ Note(t)
    /\ UNCHANGED <<storage_, isPopulated_, lockVars, fineVars, todo, out, ret, hPushed, hPopped>>

\* push / emplace: make_shared<T>, then lock_push_tail: make_unique<Node>() ...
Fine_alloc_next(t) ==
    /\ SetHeap(AllocNode(HeapNow))
    /\ loc' = [loc EXCEPT ![t].nw = NewNode(HeapNow)]
    /\ pc' = [pc EXCEPT ![t] = "lock_tail"]
    /\ Note(t)
    /\ UNCHANGED <<storage_, isPopulated_, lockVars, head_, tail_, isPoppable_,
                   todo, out, ret, hPushed, hPopped>>

Fine_push_alloc(t) ==
    /\ Running(t, "F", {"push"}, "start")
    /\ Fine_alloc_next(t)

Fine_emplace_alloc(t) ==
    /\ Running(t, "F", {"emplace"}, "start")
    /\ Fine_alloc_next(t)

\* A lock_push_tail that locks headMutex_ together with tailMutex_.
Fine_lock_push_tail_lock_both(t) ==
    LET c == Cur(t) IN
    /\ Running(t, "F", {"push", "emplace"}, "lock_tail")
    /\ Grab(t, <<H(c.q), T(c.q)>>) # {}
    /\ SetLocks(t, {H(c.q), T(c.q)}, {})
    /\ pc' = [pc EXCEPT ![t] = "crit"]
    /\ Note(t)
    /\ UNCHANGED <<storage_, isPopulated_, head_, tail_, isPoppable_, alive, data_, next_,
                   todo, loc, out, ret, hPushed, hPopped>>

\* ... lock_guard{tailMutex_} ...
Fine_lock_push_tail_lock(t) ==
    /\ Running(t, "F", {"push", "emplace"}, "lock_tail")
    /\ LockStep(t, "crit")

\* ... populate(data, next, tail_), unlock ...
Fine_lock_push_tail(t) ==
    LET c == Cur(t)
        hp == populate(HeapNow, c.v, loc[t].nw, tail_[c.q])
    IN
    /\ Running(t, "F", {"push", "emplace"}, "crit")
    /\ IF ~Valid(HeapNow, tail_[c.q]) THEN Crash
       ELSE /\ SetHeap(hp)
            /\ tail_' = [tail_ EXCEPT ![c.q] = loc[t].nw]
            /\ SetLocks(t, {}, {T(c.q)})
            /\ pc' = [pc EXCEPT ![t] = "notify"]
            /\ NotePush("F", c.q, c.v)
            /\ Note(t)
            /\ UNCHANGED <<storage_, isPopulated_, head_, isPoppable_, todo, loc, out, ret>>

\* isPoppable_.notify_one() of queue q by thread t, whose call then returns.
Fine_notify_one(t, q) ==
    \E w \in Threads \cup {Null} :
        /\ NotifyOne(isPoppable_[q], w)
        /\ isPoppable_' = [isPoppable_ EXCEPT ![q] = @ \ {w}]
        /\ todo' = [todo EXCEPT ![t] = Tail(@)]
        /\ pc' = [Woken(w, pc) EXCEPT ![t] = "start"]
        /\ loc' = [loc EXCEPT ![t] = NoLoc]
        /\ ret' = [ret EXCEPT ![t] = Null]
        /\ Note(t)
        /\ UNCHANGED <<storage_, isPopulated_, lockVars, head_, tail_, alive, data_, next_,
                       out, hPushed, hPopped>>

\* ... isPoppable_.notify_one().
Fine_lock_push_tail_notify(t) ==
    /\ Running(t, "F", {"push", "emplace"}, "notify")
    /\ Fine_notify_one(t, Cur(t).q)

\* subscribe_head_data() / steal_head_data(value), then pop_head(), with headMutex_
\* held; the lock is released and the call returns.
Fine_take_head(t, q, f) ==
    LET h == head_[q]
        x == data_[h]
        r == pop_head(HeapNow, h)
    IN
    IF ~Valid(HeapNow, h) \/ (f = "ref" /\ x = Null) THEN Crash
    ELSE /\ SetHeap(r.heap)
         /\ head_' = [head_ EXCEPT ![q] = r.head]
         /\ out' = IF f = "ref" THEN [out EXCEPT ![t] = x] ELSE out
         /\ Return(t, IF f = "ref" THEN Bool(TRUE) ELSE x)
         /\ NotePop("F", q, x)
         /\ SetLocks(t, {}, {H(q)})
         /\ Note(t)
         /\ UNCHANGED <<storage_, isPopulated_, tail_, isPoppable_>>

\* try_pop: lock_guard{headMutex_}; head_.get() == get_tail() ? nothing : the head.
Fine_try_pop_lock(t) ==
    /\ Running(t, "F", {"try_pop"}, "start")
    /\ LockStep(t, "gt_lock")

Fine_try_pop(t) ==
    LET c == Cur(t) IN
    /\ Running(t, "F", {"try_pop"}, "gt_done")
    /\ IF head_[c.q] = loc[t].tl
       THEN /\ Return(t, IF c.f = "ref" THEN Bool(FALSE) ELSE Null)
            /\ NotePop("F", c.q, Null)
            /\ SetLocks(t, {}, {H(c.q)})
            /\ Note(t)
            /\ UNCHANGED <<storage_, isPopulated_, fineVars, out>>
       ELSE Fine_take_head(t, c.q, c.f)

\* wait_and_pop: wait_for_head() = unique_lock{headMutex_};
\* isPoppable_.wait(lock, head_.get() != get_tail()); then take the head.
Fine_wait_for_head_lock(t) ==
    /\ Running(t, "F", {"wait_and_pop"}, "start")
    /\ LockStep(t, "gt_lock")

\* The predicate has been evaluated (get_tail() returned).
Fine_wait_for_head(t) ==
    LET c == Cur(t) IN
    /\ Running(t, "F", {"wait_and_pop"}, "gt_done")
    /\ IF head_[c.q] # loc[t].tl
       THEN Fine_take_head(t, c.q, c.f)
       ELSE /\ pc' = [pc EXCEPT ![t] = "park"]
            /\ Note(t)
            /\ UNCHANGED <<storage_, isPopulated_, lockVars, fineVars, todo, loc, out, ret,
                           hPushed, hPopped>>

\* condition_variable::wait(lock): release headMutex_ and block, atomically.
Fine_wait_block(t) ==
    LET c == Cur(t) IN
    /\ Running(t, "F", {"wait_and_pop"}, "park")
    /\ isPoppable_' = [isPoppable_ EXCEPT ![c.q] = @ \cup {t}]
    /\ SetLocks(t, {}, {H(c.q)})
    /\ pc' = [pc EXCEPT ![t] = "parked"]
    /\ Note(t)
    /\ UNCHANGED <<storage_, isPopulated_, head_, tail_, alive, data_, next_,
                   todo, loc, out, ret, hPushed, hPopped>>

Fine_wait_reacquire(t) ==
    /\ Running(t, "F", {"wait_and_pop"}, "wake")
    /\ LockStep(t, "gt_lock")

Fine_spurious_wakeup(t) ==
    LET c == Cur(t) IN
    /\ Running(t, "F", {"wait_and_pop"}, "parked")
    /\ t \in isPoppable_[c.q]
    /\ loc[t].sw < MaxSpurious
    /\ loc' = [loc EXCEPT ![t].sw = @ + 1]
    /\ isPoppable_' = [isPoppable_ EXCEPT ![c.q] = @ \ {t}]
    /\ pc' = [pc EXCEPT ![t] = "wake"]
    /\ Note(t)
    /\ UNCHANGED <<storage_, isPopulated_, lockVars, head_, tail_, alive, data_, next_,
                   todo, out, ret, hPushed, hPopped>>

\* A size() whose count starts at one: the dummy node is counted too.
Fine_size_lock_counts_dummy(t) ==
    LET c == Cur(t) IN
    /\ Running(t, "F", {"size"}, "start")
    /\ Acquire(t, "gt_lock")
    /\ loc' = [loc EXCEPT ![t].i = head_[c.q], ![t].len = 1, ![t].seen = Content(c.q)]
    /\ Note(t)
    /\ UNCHANGED <<storage_, isPopulated_, fineVars, todo, out, ret, hPushed, hPopped>>

\* size(): lock_guard{headMutex_}; for (i = head_.get(); i != get_tail(); i = i->next_.get()) ++length.
\* (`seen` is history: what the queue holds at the moment its headMutex_ is taken.)
Fine_size_lock(t) ==
    LET c == Cur(t) IN
    /\ Running(t, "F", {"size"}, "start")
    /\ Acquire(t, "gt_lock")
    /\ loc' = [loc EXCEPT ![t].i = head_[c.q], ![t].len = 0, ![t].seen = Content(c.q)]
    /\ Note(t)
    /\ UNCHANGED <<storage_, isPopulated_, fineVars, todo, out, ret, hPushed, hPopped>>

Fine_size(t) ==
    LET c == Cur(t)
        i == loc[t].i
    IN
    /\ Running(t, "F", {"size"}, "gt_done")
    /\ IF i = loc[t].tl
       THEN /\ Return(t, loc[t].len)
            /\ SetLocks(t, {}, {H(c.q)})
            /\ Note(t)
            /\ UNCHANGED <<storage_, isPopulated_, fineVars, out, hPushed, hPopped>>
       ELSE IF ~Valid(HeapNow, i) THEN Crash
       ELSE /\ loc' = [loc EXCEPT ![t].i = next_[i], ![t].len = @ + 1]
            /\ pc' = [pc EXCEPT ![t] = "gt_lock"]
            /\ Note(t)
            /\ UNCHANGED <<storage_, isPopulated_, lockVars, fineVars, todo, out, ret,
                           hPushed, hPopped>>

\* empty(): lock_guard{headMutex_}; head_.get() == get_tail().
Fine_empty_lock(t) ==
    /\ Running(t, "F", {"empty"}, "start")
    /\ LockStep(t, "gt_lock")

Fine_empty(t) ==
    LET c == Cur(t) IN
    /\ Running(t, "F", {"empty"}, "gt_done")
    /\ Return(t, Bool(head_[c.q] = loc[t].tl))
    /\ SetLocks(t, {}, {H(c.q)})
    /\ Note(t)
    /\ UNCHANGED <<storage_, isPopulated_, fineVars, out, hPushed, hPopped>>

\* The dummy node of a list under construction: head{ make_unique<Node>() }, tail{ head.get() }.
Fine_alloc_dummy(t) ==
    /\ SetHeap(AllocNode(HeapNow))
    /\ loc' = [loc EXCEPT ![t].h = NewNode(HeapNow), ![t].t = NewNode(HeapNow)]
    /\ pc' = [pc EXCEPT ![t] = "lock_src"]
    /\ Note(t)
    /\ UNCHANGED <<storage_, isPopulated_, lockVars, head_, tail_, isPoppable_,
                   todo, out, ret, hPushed, hPopped>>

\* FineQueue(const FineQueue& other): a dummy node, then lock_traverse_push(other, tail_).
Fine_copy_ctor_alloc(t) ==
    /\ Running(t, "F", {"copy_ctor"}, "start")
    /\ Fine_alloc_dummy(t)

\* operator=(const FineQueue& other): this == &other returns at once; else a new
\* dummy node, then lock_traverse_push(other, tail).
Fine_copy_assign_alloc(t) ==
    LET c == Cur(t) IN
    /\ Running(t, "F", {"copy_assign"}, "start")
    /\ IF c.q = c.o
       THEN /\ Return(t, Null)
            /\ Note(t)
            /\ UNCHANGED <<storage_, isPopulated_, lockVars, fineVars, out, hPushed, hPopped>>
       ELSE Fine_alloc_dummy(t)

\* A traversal that starts at the node after other.head_: the first element is left out.
Fine_lock_traverse_push_lock_after_head(t) ==
    LET c == Cur(t) IN
    /\ Running(t, "F", {"copy_ctor", "copy_assign"}, "lock_src")
    /\ Acquire(t, "gt_lock")
    /\ loc' = [loc EXCEPT ![t].i = IF head_[c.o] = tail_[c.o] THEN head_[c.o]
                                   ELSE next_[head_[c.o]],
                          ![t].seen = Content(c.o)]
    /\ Note(t)
    /\ UNCHANGED <<storage_, isPopulated_, fineVars, todo, out, ret, hPushed, hPopped>>

\* lock_traverse_push(other, tail): lock_guard{other.headMutex_}; i = other.head_.get() ...
\* (`seen` is history: what the source holds at the moment its headMutex_ is taken.)
Fine_lock_traverse_push_lock(t) ==
    LET c == Cur(t) IN
    /\ Running(t, "F", {"copy_ctor", "copy_assign"}, "lock_src")
    /\ Acquire(t, "gt_lock")
    /\ loc' = [loc EXCEPT ![t].i = head_[c.o], ![t].seen = Content(c.o)]
    /\ Note(t)
    /\ UNCHANGED <<storage_, isPopulated_, fineVars, todo, out, ret, hPushed, hPopped>>

\* ... i != other.get_tail(): copy *i->data_ into a new node of the list under construction
\* and go on with i->next_; i == other.get_tail(): unlock.  A copy construction is then
\* complete (the elements of the new queue are kept in `made`; the model destroys the
\* queue object itself); a copy assignment goes on to lock its own mutexes.
Fine_lock_traverse_push(t) ==
    LET c == Cur(t)
        i == loc[t].i
        a == AllocNode(HeapNow)
        nx == NewNode(HeapNow)
    IN
    /\ Running(t, "F", {"copy_ctor", "copy_assign"}, "gt_done")
    /\ IF i = loc[t].tl
       THEN IF c.op = "copy_ctor"
            THEN /\ made' = [made EXCEPT ![t] = Elements(HeapNow, loc[t].h, loc[t].t)]
                 /\ SetHeap(FreeNodes(HeapNow, ChainOf(HeapNow, loc[t].h)))
                 /\ Return(t, Null)
                 /\ SetLocks(t, {}, {H(c.o)})
                 /\ NoteCall(t)
                 /\ UNCHANGED <<storage_, isPopulated_, head_, tail_, isPoppable_, out, ub,
                                hPushed, hPopped>>
            ELSE /\ pc' = [pc EXCEPT ![t] = "lock_self"]
                 /\ SetLocks(t, {}, {H(c.o)})
                 /\ Note(t)
                 /\ UNCHANGED <<storage_, isPopulated_, fineVars, todo, loc, out, ret,
                                hPushed, hPopped>>
       ELSE IF ~Valid(HeapNow, i) \/ data_[i] = Null THEN Crash
       ELSE /\ SetHeap(populate(a, data_[i], nx, loc[t].t))
            /\ loc' = [loc EXCEPT ![t].i = next_[i], ![t].t = nx]
            /\ pc' = [pc EXCEPT ![t] = "gt_lock"]
            /\ Note(t)
            /\ UNCHANGED <<storage_, isPopulated_, lockVars, head_, tail_, isPoppable_,
                           todo, out, ret, hPushed, hPopped>>

\* operator=(const FineQueue&), second half: scoped_lock{headMutex_, tailMutex_};
\* head_ = std::move(head) (the old list is destroyed); tail_ = tail; unlock; notify_one.
Fine_copy_assign_lock(t) ==
    /\ Running(t, "F", {"copy_assign"}, "lock_self")
    /\ LockStep(t, "crit")

\* A shallow copy assignment: the queue takes the source's own head_ and tail_.
Fine_copy_assign_shallow(t) ==
    LET c == Cur(t) IN
    /\ Running(t, "F", {"copy_assign"}, "crit")
    /\ head_' = [head_ EXCEPT ![c.q] = head_[c.o]]
    /\ tail_' = [tail_ EXCEPT ![c.q] = tail_[c.o]]
    /\ SetLocks(t, {}, {H(c.q), T(c.q)})
    /\ pc' = [pc EXCEPT ![t] = "notify"]
    /\ Note(t)
    /\ UNCHANGED <<storage_, isPopulated_, isPoppable_, alive, data_, next_, todo, loc,
                   out, ret, hPushed, hPopped>>

Fine_copy_assign(t) ==
    LET c == Cur(t) IN
    /\ Running(t, "F", {"copy_assign"}, "crit")
    /\ SetHeap(FreeNodes(HeapNow, ChainOf(HeapNow, head_[c.q])))
    /\ head_' = [head_ EXCEPT ![c.q] = loc[t].h]
    /\ tail_' = [tail_ EXCEPT ![c.q] = loc[t].t]
    /\ SetLocks(t, {}, {H(c.q), T(c.q)})
    /\ pc' = [pc EXCEPT ![t] = "notify"]
    /\ Note(t)
    /\ UNCHANGED <<storage_, isPopulated_, isPoppable_, todo, loc, out, ret, hPushed, hPopped>>

\* operator=(FineQueue&& other): scoped_lock{headMutex_, tailMutex_};
\* head_ = std::move(other.head_) leaves other.head_ null and destroys the old list;
\* tail_ = std::move(other.tail_) copies the raw pointer, other.tail_ keeps it.
Fine_move_assign_lock(t) ==
    /\ Running(t, "F", {"move_assign"}, "start")
    /\ LockStep(t, "crit")

Fine_move_assign(t) ==
    LET c == Cur(t) IN
    /\ Running(t, "F", {"move_assign"}, "crit")
    /\ SetHeap(FreeNodes(HeapNow, ChainOf(HeapNow, head_[c.q])))
    /\ head_' = [head_ EXCEPT ![c.q] = head_[c.o], ![c.o] = Null]
    /\ tail_' = [tail_ EXCEPT ![c.q] = tail_[c.o]]
    /\ SetLocks(t, {}, {H(c.q), T(c.q)})
    /\ pc' = [pc EXCEPT ![t] = "notify"]
    /\ Note(t)
    /\ UNCHANGED <<storage_, isPopulated_, isPoppable_, todo, loc, out, ret, hPushed, hPopped>>

\* FineQueue(FineQueue&& other): head_{ std::move(other.head_) }, tail_{ std::move(other.tail_) },
\* no lock: other.head_ is left null, other.tail_ keeps its value.  The elements of
\* the new queue are kept in `made`; the model destroys the queue object itself,
\* and with it the nodes it took.
Fine_move_ctor(t) ==
    LET c == Cur(t) IN
    /\ Running(t, "F", {"move_ctor"}, "start")
    /\ made' = [made EXCEPT ![t] = Content(c.o)]
    /\ SetHeap(FreeNodes(HeapNow, ChainOf(HeapNow, head_[c.o])))
    /\ head_' = [head_ EXCEPT ![c.o] = Null]
    /\ Return(t, Null)
    /\ NoteCall(t)
    /\ UNCHANGED <<storage_, isPopulated_, lockVars, tail_, isPoppable_, out, ub,
                   hPushed, hPopped>>

Fine_assign_notify(t) ==
    /\ Running(t, "F", {"copy_assign", "move_assign"}, "notify")
    /\ Fine_notify_one(t, Cur(t).q)

\* swap(other): scoped_lock{headMutex_, tailMutex_, other.headMutex_, other.tailMutex_};
\* std::swap(head_, other.head_); std::swap(tail_, other.tail_).  No notification.
Fine_swap_lock(t) ==
    /\ Running(t, "F", {"swap"}, "start")
    /\ LockStep(t, "crit")

\* A swap that exchanges the head_ pointers only: each queue keeps its own tail_.
Fine_swap_heads_only(t) ==
    LET c == Cur(t) IN
    /\ Running(t, "F", {"swap"}, "crit")
    /\ head_' = [head_ EXCEPT ![c.q] = head_[c.o], ![c.o] = head_[c.q]]
    /\ Return(t, Null)
    /\ SetLocks(t, {}, {H(c.q), T(c.q), H(c.o), T(c.o)})
    /\ Note(t)
    /\ UNCHANGED <<storage_, isPopulated_, isPoppable_, tail_, alive, data_, next_, out,
                   hPushed, hPopped>>

Fine_swap(t) ==
    LET c == Cur(t) IN
    /\ Running(t, "F", {"swap"}, "crit")
    /\ head_' = [head_ EXCEPT ![c.q] = head_[c.o], ![c.o] = head_[c.q]]
    /\ tail_' = [tail_ EXCEPT ![c.q] = tail_[c.o], ![c.o] = tail_[c.q]]
    /\ Return(t, Null)
    /\ SetLocks(t, {}, {H(c.q), T(c.q), H(c.o), T(c.o)})
    /\ Note(t)
    /\ UNCHANGED <<storage_, isPopulated_, isPoppable_, alive, data_, next_, out,
                   hPushed, hPopped>>

\* operator==: the loop over both lists; "ub" if it dereferences a null or destroyed
\* node, else whether both iterators stopped at their tails.
\* A comparison of the lengths only.
RECURSIVE EqualWalk_lengths(_, _, _, _, _)
EqualWalk_lengths(hp, i1, t1, i2, t2) ==
    IF i1 = t1 \/ i2 = t2 THEN Bool(i1 = t1 /\ i2 = t2)
    ELSE IF ~Valid(hp, i1) \/ ~Valid(hp, i2) THEN -1
    ELSE EqualWalk_lengths(hp, hp.next[i1], t1, hp.next[i2], t2)

RECURSIVE EqualWalk(_, _, _, _, _)
EqualWalk(hp, i1, t1, i2, t2) ==
    IF i1 = t1 \/ i2 = t2 THEN Bool(i1 = t1 /\ i2 = t2)
    ELSE IF ~Valid(hp, i1) \/ ~Valid(hp, i2) \/ hp.data[i1] = Null \/ hp.data[i2] = Null
         THEN -1
    ELSE IF hp.data[i1] # hp.data[i2] THEN Bool(FALSE)
    ELSE EqualWalk(hp, hp.next[i1], t1, hp.next[i2], t2)

\* operator==(one, other): scoped_lock on the four mutexes, the walk, unlock.
Fine_equal_lock(t) ==
    /\ Running(t, "F", {"equal"}, "start")
    /\ LockStep(t, "crit")

Fine_equal(t) ==
    LET c == Cur(t)
        r == EqualWalk(HeapNow, head_[c.q], tail_[c.q], head_[c.o], tail_[c.o])
    IN
    /\ Running(t, "F", {"equal"}, "crit")
    /\ IF r = -1 THEN Crash
       ELSE /\ Return(t, r)
            /\ SetLocks(t, {}, {H(c.q), T(c.q), H(c.o), T(c.o)})
            /\ Note(t)
            /\ UNCHANGED <<storage_, isPopulated_, fineVars, out, hPushed, hPopped>>

\* --------------------------------------------------------- ThreadSafeQueue
\* ThreadSafeQueue<T> has the members of BluntQueue<T> (mutex_, isPopulated_, storage_)
\* and the same code for every member function but the two moves (std::lock with two
\* adopting lock_guards is what std::scoped_lock does).  A run whose queues are
\* ThreadSafeQueues keeps them in storage_, mutex_ and isPopulated_; its calls of
\* class "B" are the shared member functions, its calls of class "S" the two moves.

\* Another thread is inside a critical section of queue q: an access to q's storage_
\* made now without q's mutex_ is a data race with it.
Races(t, q) == mutex_[q] \notin {Null, t}

\* operator=(ThreadSafeQueue&&): lock_guard{mutex_} and both mutexes.
ThreadSafeQueue_move_assign_lock_both(t) ==
    LET c == Cur(t) IN
    /\ Running(t, "S", {"move_assign"}, "start")
    /\ Grab(t, <<M(c.q), M(c.o)>>) # {}
    /\ SetLocks(t, {M(c.q), M(c.o)}, {})
    /\ pc' = [pc EXCEPT ![t] = "crit"]
    /\ Note(t)
    /\ UNCHANGED <<storage_, isPopulated_, fineVars, todo, loc, out, ret, hPushed, hPopped>>

\* operator=(ThreadSafeQueue&&): lock_guard{mutex_}; storage_ = std::move(other.storage_);
\* unlock; isPopulated_.notify_one().  other.mutex_ is never taken.
ThreadSafeQueue_move_assign_lock(t) ==
    /\ Running(t, "S", {"move_assign"}, "start")
    /\ LockStep(t, "crit")

ThreadSafeQueue_move_assign(t) ==
    LET c == Cur(t) IN
    /\ Running(t, "S", {"move_assign"}, "crit")
    /\ IF Races(t, c.o)
       THEN Crash
       ELSE /\ storage_' = [storage_ EXCEPT ![c.q] = storage_[c.o], ![c.o] = <<>>]
            /\ SetLocks(t, {}, {M(c.q)})
            /\ pc' = [pc EXCEPT ![t] = "notify"]
            /\ Note(t)
            /\ UNCHANGED <<isPopulated_, fineVars, todo, loc, out, ret, hPushed, hPopped>>

ThreadSafeQueue_assign_notify(t) ==
    /\ Running(t, "S", {"move_assign"}, "notify")
    /\ Blunt_notify_one(t, Cur(t).q, "return", Null)

\* ThreadSafeQueue(ThreadSafeQueue&& other): storage_{ std::move(other.storage_) }, no
\* mutex at all.  The elements of the new queue are kept in `made`.
ThreadSafeQueue_move_ctor(t) ==
    LET c == Cur(t) IN
    /\ Running(t, "S", {"move_ctor"}, "start")
    /\ IF Races(t, c.o)
       THEN Crash
       ELSE /\ made' = [made EXCEPT ![t] = storage_[c.o]]
            /\ storage_' = [storage_ EXCEPT ![c.o] = <<>>]
            /\ Return(t, Null)
            /\ NoteCall(t)
            /\ UNCHANGED <<isPopulated_, lockVars, fineVars, out, ub, hPushed, hPopped>>

\* ------------------------------------------------------------ construction
EmptyHeap == [alive |-> {}, data |-> <<>>, next |-> <<>>]

\* FineQueue queue 1 built from the list i1 and queue 2 from i2 (FineQueue() is the
\* empty list: one dummy node).
FineBuilt(i1, i2) ==
    LET a == FineQueue_list(EmptyHeap, i1)
        b == FineQueue_list(a.heap, i2)
    IN  [heap |-> b.heap, head |-> <<a.head, b.head>>, tail |-> <<a.tail, b.tail>>]

\* The state after the queues are constructed, BluntQueue q from bi[q] and FineQueue q
\* from fi[q], before any thread runs; `script` gives each thread its calls, `free`
\* is the number of calls the threads may choose themselves; `slots` is the
\* ThreadStorage of the test body and `body` the position of the test body.
ConstructedIn(bi, fi, script, free, name, track, slots, body) ==
    LET f == FineBuilt(fi[1], fi[2]) IN
    /\ storage_ = bi
    /\ mutex_ = [q \in Queues |-> Null]
    /\ isPopulated_ = [q \in Queues |-> {}]
    /\ head_ = [q \in Queues |-> IF q <= 2 THEN f.head[q] ELSE Null]
    /\ tail_ = [q \in Queues |-> IF q <= 2 THEN f.tail[q] ELSE Null]
    /\ headMutex_ = [q \in Queues |-> Null]
    /\ tailMutex_ = [q \in Queues |-> Null]
    /\ isPoppable_ = [q \in Queues |-> {}]
    /\ alive = f.heap.alive
    /\ data_ = f.heap.data
    /\ next_ = f.heap.next
    /\ todo = script
    /\ left = free
    /\ pc = [t \in Threads |-> "start"]
    /\ loc = [t \in Threads |-> NoLoc]
    /\ out = [t \in Threads |-> Null]
    /\ ret = [t \in Threads |-> Null]
    /\ made = [t \in Threads |-> <<>>]
    /\ ub = FALSE
    /\ hPushed = [k \in {"B", "F"} |-> IF k = "B" THEN bi ELSE [q \in Queues |-> fi[q]]]
    /\ hPopped = [k \in {"B", "F"} |-> [q \in Queues |-> <<>>]]
    /\ popBegun = FALSE
    /\ overlap = FALSE
    /\ tracking = track
    /\ scen = name
    /\ threads = slots
    /\ main = body

\* The same with the threads already running and no ThreadStorage in sight.
Constructed(bi, fi, script, free, name, track) ==
    ConstructedIn(bi, fi, script, free, name, track, <<>>, NoMain)

NoItems == [q \in Queues |-> <<>>]
Items(i1, i2) == [NoItems EXCEPT ![1] = i1, ![2] = i2]
NoScript == [t \in Threads |-> <<>>]

\* ------------------------------------------- Spec: one queue, pushes and pops
\* Every thread makes up to MaxOps calls of push, emplace, try_pop and
\* wait_and_pop (both forms) on queue 1 of one class, built from an initializer list.
PushPopCalls(k) ==
    {Call(op, k, 1, 0, v, "-") : op \in {"push", "emplace"}, v \in Values}
    \cup {Call(op, k, 1, 0, 0, f) : op \in {"try_pop", "wait_and_pop"}, f \in {"val", "ref"}}

\* The thread decides on its next call.
Choose(t, calls) ==
    /\ ~ub
    /\ ~Active(t)
    /\ left > 0
    /\ \E c \in calls : todo' = [todo EXCEPT ![t] = <<c>>]
    /\ left' = left - 1
    /\ UNCHANGED <<storage_, isPopulated_, lockVars, fineVars, pc, loc, out, ret, made, ub,
                   hPushed, hPopped, popBegun, overlap, tracking, scen, threads, main>>

ChoosePushPop(t) == Choose(t, PushPopCalls(IF scen = "blunt" THEN "B" ELSE "F"))

Init ==
    \E k \in {"blunt", "fine"}, items \in SeqsUpTo(MaxInit) :
        Constructed(IF k = "blunt" THEN [NoItems EXCEPT ![1] = items] ELSE NoItems,
                    IF k = "fine" THEN [NoItems EXCEPT ![1] = items] ELSE NoItems,
                    NoScript, MaxOps, k, TRUE)

BluntPushPop(t) ==
    \/ Blunt_push_lock(t) \/ Blunt_push(t) \/ Blunt_emplace_lock(t) \/ Blunt_emplace(t)
    \/ Blunt_push_notify(t)
    \/ Blunt_try_pop_lock(t) \/ Blunt_try_pop(t)
    \/ Blunt_wait_and_pop_lock(t) \/ Blunt_wait_and_pop(t) \/ Blunt_wait_block(t)
    \/ Blunt_wait_reacquire(t) \/ Blunt_spurious_wakeup(t)

FinePushPop(t) ==
    \/ Fine_push_alloc(t) \/ Fine_emplace_alloc(t) \/ Fine_lock_push_tail_lock(t)
    \/ Fine_lock_push_tail(t) \/ Fine_lock_push_tail_notify(t)
    \/ Fine_get_tail(t)
    \/ Fine_try_pop_lock(t) \/ Fine_try_pop(t)
    \/ Fine_wait_for_head_lock(t) \/ Fine_wait_for_head(t) \/ Fine_wait_block(t)
    \/ Fine_wait_reacquire(t) \/ Fine_spurious_wakeup(t)

Next ==
    \E t \in Workers : ChoosePushPop(t) \/ BluntPushPop(t) \/ FinePushPop(t)

Spec == Init /\ [][Next]_vars

\* ------------------------------------------------------ properties under Spec
\* The class and the elements of the queue the run of Spec works on.
RunClass == IF scen = "blunt" THEN "B" ELSE "F"
Queue1 == IF scen = "blunt" THEN storage_[1] ELSE Content(1)

RECURSIVE Count(_, _)
Count(v, s) == IF s = <<>> THEN 0 ELSE Bool(Head(s) = v) + Count(v, Tail(s))

\* C1. FIFO: as long as no push has taken a step after a pop began, the results of
\* the pops, in the order the pops removed, are the values appended (initializer
\* list first, then the pushes in the order they appended), each a value as long as
\* appended values remain, and "no value" after all of them have been popped.
C1_Fifo ==
    ~overlap =>
        LET s == hPushed[RunClass][1]
            p == hPopped[RunClass][1]
        IN  \A i \in DOMAIN p : p[i] = IF i <= Len(s) THEN s[i] ELSE Null

\* Two different values went into a FineQueue and three pops, begun after the last
\* push, returned them in order and then "no value".
C1_Witness ==
    /\ scen = "fine" /\ ~overlap
    /\ Len(hPushed["F"][1]) = 2 /\ hPushed["F"][1][1] # hPushed["F"][1][2]
    /\ Len(hPopped["F"][1]) = 3 /\ hPopped["F"][1][3] = Null

\* C2. Conservation: in every state the values appended so far are, value by value
\* and in number, the values the pops have removed plus the values still queued.
\* A push counts from the step that appends, a pop from the step that removes.
C2_Conservation ==
    LET s == hPushed[RunClass][1]
        p == hPopped[RunClass][1]
    IN  /\ \A v \in Values : Count(v, s) = Count(v, p) + Count(v, Queue1)
        /\ Len(s) = (Len(p) - Count(Null, p)) + Len(Queue1)
        /\ Count(Null, Queue1) = 0

\* Pushes and pops overlapped on a FineQueue, a value was popped and one is queued.
C2_Witness ==
    /\ scen = "fine" /\ overlap
    /\ \E v \in Values : Count(v, hPopped["F"][1]) > 0
    /\ Len(Queue1) > 0
    /\ Len(hPushed["F"][1]) > Len(Queue1) + 1

\* C5. try_pop on an empty queue: a try_pop that returns from a state in which the
\* queue is empty returns false / a null pointer, leaves the queue empty and the
\* caller's argument as it was; and no step of a try_pop blocks on the condition.
C5_TryPopReturnsEmpty(t) ==
    (Active(t) /\ Cur(t).op = "try_pop" /\ todo'[t] # todo[t] /\ Queue1 = <<>>) =>
        /\ ret'[t] = Null
        /\ out'[t] = out[t]
        /\ Queue1' = <<>>

C5_TryPopNeverWaits(t) ==
    (Active(t) /\ Cur(t).op = "try_pop") =>
        /\ pc'[t] \notin {"park", "parked", "wake"}
        /\ t \notin isPopulated_'[1] \cup isPoppable_'[1]

C5_TryPopOnEmpty ==
    [][\A t \in Threads : C5_TryPopReturnsEmpty(t) /\ C5_TryPopNeverWaits(t)]_vars

\* A try_pop(T&) has returned false on an empty queue after an earlier pop had
\* filled the caller's argument.
C5_Witness ==
    \E t \in Threads :
        /\ ~Active(t) /\ ret[t] = Bool(FALSE) /\ out[t] # Null
        /\ Queue1 = <<>>
        /\ Len(hPopped[RunClass][1]) >= 2
        /\ hPopped[RunClass][1][Len(hPopped[RunClass][1])] = Null

\* --------------------------- SpecWake: a blocked wait_and_pop and its producer
\* The calls of the threads are fixed: thread 1 produces into queue 1, on which
\* threads 2 and 3 call wait_and_pop.
Script(s1, s2, s3) ==
    [t \in Threads |-> IF t = 1 THEN s1 ELSE IF t = 2 THEN s2 ELSE IF t = 3 THEN s3 ELSE <<>>]

Waits(k, f) == <<Call("wait_and_pop", k, 1, 0, 0, f)>>
Pushes(k, v) == <<Call("push", k, 1, 0, v, "-")>>
PopForms == {"val", "ref"}
Donors == SeqsUpTo(MaxInit) \ {<<>>}

\* BluntQueueTests.WaitPushAndRefPop / WaitPushAndValuePop: two pushes, one waiter.
InitBluntPush ==
    \E v1, v2 \in Values, f \in PopForms :
        Constructed(NoItems, NoItems,
                    Script(Pushes("B", v1) \o Pushes("B", v2), Waits("B", f), <<>>),
                    0, "b_push", TRUE)

\* BluntQueueTests.WaitCopyAssignAndValuePop / WaitMoveAssignAndValuePop / Swap: queue 2
\* is not empty and thread 1 assigns it to queue 1 or swaps the two, either way round.
InitBluntInstall ==
    \E items \in Donors, f \in PopForms,
       c \in {Call("copy_assign", "B", 1, 2, 0, "-"), Call("move_assign", "B", 1, 2, 0, "-"),
              Call("swap", "B", 1, 2, 0, "-"), Call("swap", "B", 2, 1, 0, "-")} :
        Constructed([NoItems EXCEPT ![2] = items], NoItems,
                    Script(<<c>>, Waits("B", f), <<>>), 0, "b_install", TRUE)

\* FineQueueTests.PushAndWaitValuePop / PushAndWaitRefPop: k pushes, k waiters.
InitFinePush ==
    \E v1, v2 \in Values, f \in PopForms, k \in {1, 2} :
        Constructed(NoItems, NoItems,
                    IF k = 1
                    THEN Script(Pushes("F", v1), Waits("F", f), <<>>)
                    ELSE Script(Pushes("F", v1) \o Pushes("F", v2), Waits("F", f), Waits("F", f)),
                    0, "f_push", TRUE)

\* A waiter on the empty FineQueue 1 while thread 1 swaps it with the non-empty queue 2.
InitFineSwap ==
    \E items \in Donors, f \in PopForms,
       c \in {Call("swap", "F", 1, 2, 0, "-"), Call("swap", "F", 2, 1, 0, "-")} :
        Constructed(NoItems, [NoItems EXCEPT ![2] = items],
                    Script(<<c>>, Waits("F", f), <<>>), 0, "f_swap", TRUE)

InitWake == InitBluntPush \/ InitBluntInstall \/ InitFinePush \/ InitFineSwap

\* The steps thread t takes by itself (a spurious wakeup is not one of them).
WakeStep(t) ==
    \/ Blunt_push_lock(t) \/ Blunt_push(t) \/ Blunt_push_notify(t)
    \/ Blunt_wait_and_pop_lock(t) \/ Blunt_wait_and_pop(t) \/ Blunt_wait_block(t)
    \/ Blunt_wait_reacquire(t)
    \/ Blunt_copy_assign_lock(t) \/ Blunt_copy_assign(t)
    \/ Blunt_move_assign_lock(t) \/ Blunt_move_assign(t) \/ Blunt_assign_notify(t)
    \/ Blunt_swap_lock(t) \/ Blunt_swap(t) \/ Blunt_swap_notify(t) \/ Blunt_swap_notify_other(t)
    \/ Fine_push_alloc(t) \/ Fine_lock_push_tail_lock(t) \/ Fine_lock_push_tail(t)
    \/ Fine_lock_push_tail_notify(t)
    \/ Fine_get_tail(t)
    \/ Fine_wait_for_head_lock(t) \/ Fine_wait_for_head(t) \/ Fine_wait_block(t)
    \/ Fine_wait_reacquire(t)
    \/ Fine_swap_lock(t) \/ Fine_swap(t)

NextWake ==
    \E t \in Threads : WakeStep(t) \/ Blunt_spurious_wakeup(t) \/ Fine_spurious_wakeup(t)

\* A thread that can take a step is scheduled; a spurious wakeup need never happen.
SpecWake == InitWake /\ [][NextWake]_vars /\ \A t \in Threads : WF_vars(WakeStep(t))

\* -------------------------------------------------- properties under SpecWake
\* C3. BluntQueue, one waiter and two pushes: the wait_and_pop on the empty queue
\* returns, what it returns is the value pushed first, and once every call has
\* returned the queue holds exactly one element (the value pushed second).
C3_BluntPopWakesOnPush ==
    /\ <>(scen = "b_push" => ~Active(2))
    /\ [](scen = "b_push" /\ AllDone =>
            /\ hPopped["B"][1] = <<hPushed["B"][1][1]>>
            /\ storage_[1] = <<hPushed["B"][1][2]>>)

\* The waiter was blocked in wait() when the first push notified, and is now
\* runnable with that element in the queue.
C3_Witness ==
    /\ scen = "b_push"
    /\ pc[2] = "wake" /\ loc[2].sw = 0
    /\ Len(todo[1]) = 1 /\ pc[1] = "start"
    /\ Len(storage_[1]) = 1

\* C4. FineQueue, k waiters and k pushes (k = 1, 2): every wait_and_pop returns,
\* and once every call has returned the queue is empty.
C4_FinePopWakesOnPush ==
    /\ <>(scen = "f_push" => \A t \in Threads : ~Active(t))
    /\ [](scen = "f_push" /\ AllDone => Content(1) = <<>>)

\* C6. BluntQueue, a waiter on the empty queue 1 while queue 2 is copy-assigned or
\* move-assigned to it or swapped with it: the wait_and_pop returns, and once every
\* call has returned queue 1 holds one element fewer than the contents installed.
C6_BluntPopWakesOnInstall ==
    /\ <>(scen = "b_install" => ~Active(2))
    /\ [](scen = "b_install" /\ AllDone =>
            /\ Len(storage_[1]) = Len(hPushed["B"][2]) - 1
            /\ hPopped["B"][1] = <<hPushed["B"][2][1]>>)

\* The waiter was blocked in wait() when the assignment notified, and is now
\* runnable with the installed contents in its queue.
C6_Witness ==
    /\ scen = "b_install"
    /\ pc[2] = "wake" /\ loc[2].sw = 0
    /\ ~Active(1) /\ ret[1] = Null
    /\ storage_[1] = hPushed["B"][2]
    /\ storage_[2] = <<>>

\* C7. FineQueue, a waiter on the empty queue 1 while thread 1 swaps it with the
\* non-empty queue 2: the wait_and_pop returns.
C7_FinePopWakesOnSwap ==
    <>(scen = "f_swap" => ~Active(2))

\* ------------------------- SpecCross: two threads, one cross-instance call each
\* a == b, b == a, a.swap(b), b.swap(a), a = b, b = a on the two queues of class k.
CrossCalls(k) ==
    {Call(op, k, q, 3 - q, 0, "-") : op \in {"equal", "swap", "copy_assign"}, q \in {1, 2}}

\* The contents the two queues start with: 1, 2, ... up to every length.
Counting == {[i \in 1..n |-> ((i - 1) % MaxVal) + 1] : n \in 0..MaxInit}

InitCross ==
    \E k \in {"B", "F"}, i1, i2 \in Counting :
        \E c1, c2 \in CrossCalls(k) :
            Constructed(IF k = "B" THEN Items(i1, i2) ELSE NoItems,
                        IF k = "F" THEN Items(i1, i2) ELSE NoItems,
                        Script(<<c1>>, <<c2>>, <<>>), 0, "cross", FALSE)

CrossStep(t) ==
    \/ Blunt_equal_lock(t) \/ Blunt_equal(t)
    \/ Blunt_swap_lock(t) \/ Blunt_swap(t) \/ Blunt_swap_notify(t) \/ Blunt_swap_notify_other(t)
    \/ Blunt_copy_assign_lock(t) \/ Blunt_copy_assign(t) \/ Blunt_assign_notify(t)
    \/ Fine_equal_lock(t) \/ Fine_equal(t)
    \/ Fine_swap_lock(t) \/ Fine_swap(t)
    \/ Fine_copy_assign_alloc(t) \/ Fine_lock_traverse_push_lock(t) \/ Fine_get_tail(t)
    \/ Fine_lock_traverse_push(t) \/ Fine_copy_assign_lock(t) \/ Fine_copy_assign(t)
    \/ Fine_assign_notify(t)

NextCross == \E t \in Threads : CrossStep(t)

\* A thread that can take a step is scheduled.
SpecCross == InitCross /\ [][NextCross]_vars /\ \A t \in Threads : WF_vars(CrossStep(t))

\* Thread t is blocked on a mutex that thread u holds.
WaitsFor(t, u) ==
    /\ Blocked(t)
    /\ \E i \in DOMAIN Wants(t) : Owner(Wants(t)[i]) = u

\* C8. Two threads each run one of a == b, b == a, a.swap(b), b.swap(a), a = b,
\* b = a on two distinct queues of one class: both calls return, and in no state
\* does each of the two threads hold a lock the other is blocked on.
C8_CrossInstanceNoDeadlock ==
    /\ <>AllDone
    /\ [](\A t, u \in Threads : ~(t # u /\ WaitsFor(t, u) /\ WaitsFor(u, t)))

\* a == b holds its locks (taken in the order a, b) while b == a, which names
\* the same locks in the opposite order, is blocked on them.
C8_Witness ==
    /\ scen = "cross"
    /\ Active(1) /\ Active(2)
    /\ Cur(1).op = "equal" /\ Cur(1).q = 1 /\ pc[1] = "crit"
    /\ Cur(2).op = "equal" /\ Cur(2).q = 2 /\ pc[2] = "start"
    /\ WaitsFor(2, 1)

\* --------------------------- SpecFine: any mix of calls on two FineQueue instances
MaxFineOps == 2      \* calls the threads of SpecFine make in all

\* push, emplace, try_pop, wait_and_pop, size, empty on either queue, a copy
\* construction from either queue, copy assignment (self-assignment included), swap
\* and equality between the two.
FineCalls ==
    {Call(op, "F", q, 0, v, "-") : op \in {"push", "emplace"}, q \in {1, 2}, v \in Values}
    \cup {Call(op, "F", q, 0, 0, f) : op \in {"try_pop", "wait_and_pop"}, q \in {1, 2},
                                      f \in PopForms}
    \cup {Call(op, "F", q, 0, 0, "-") : op \in {"size", "empty"}, q \in {1, 2}}
    \cup {Call("copy_ctor", "F", 0, o, 0, "-") : o \in {1, 2}}
    \cup {Call("copy_assign", "F", q, o, 0, "-") : q \in {1, 2}, o \in {1, 2}}
    \cup {Call(op, "F", q, 3 - q, 0, "-") : op \in {"swap", "equal"}, q \in {1, 2}}

ChooseFine(t) == Choose(t, FineCalls)

InitFine ==
    \E i1, i2 \in Counting :
        Constructed(NoItems, Items(i1, i2), NoScript, MaxFineOps, "fine2", FALSE)

FineStep(t) ==
    \/ Fine_push_alloc(t) \/ Fine_emplace_alloc(t) \/ Fine_lock_push_tail_lock(t)
    \/ Fine_lock_push_tail(t) \/ Fine_lock_push_tail_notify(t)
    \/ Fine_get_tail(t)
    \/ Fine_try_pop_lock(t) \/ Fine_try_pop(t)
    \/ Fine_wait_for_head_lock(t) \/ Fine_wait_for_head(t) \/ Fine_wait_block(t)
    \/ Fine_wait_reacquire(t) \/ Fine_spurious_wakeup(t)
    \/ Fine_size_lock(t) \/ Fine_size(t) \/ Fine_empty_lock(t) \/ Fine_empty(t)
    \/ Fine_copy_ctor_alloc(t) \/ Fine_copy_assign_alloc(t)
    \/ Fine_lock_traverse_push_lock(t) \/ Fine_lock_traverse_push(t)
    \/ Fine_copy_assign_lock(t) \/ Fine_copy_assign(t) \/ Fine_assign_notify(t)
    \/ Fine_swap_lock(t) \/ Fine_swap(t)
    \/ Fine_equal_lock(t) \/ Fine_equal(t)

NextFine == \E t \in Workers : ChooseFine(t) \/ FineStep(t)

SpecFine == InitFine /\ [][NextFine]_vars

\* Thread t sleeps in isPoppable_.wait of a queue that is empty.
ParkedOnEmpty(t) ==
    /\ Active(t)
    /\ pc[t] = "parked"
    /\ head_[Cur(t).q] = tail_[Cur(t).q]

\* C9. Any mix of push, emplace, try_pop, wait_and_pop, size, empty, copy
\* construction, copy assignment, swap and equality on two FineQueue instances:
\* leaving aside the threads parked on the condition of an empty queue, in no state
\* are there unfinished threads that are all blocked on a mutex acquisition.
C9_FineDeadlockFree ==
    LET unfinished == {t \in Threads : Active(t) /\ ~ParkedOnEmpty(t)}
    IN  ~(unfinished # {} /\ \A t \in unfinished : Blocked(t))

\* size() of queue 1 holds headMutex_ and is blocked in get_tail() on tailMutex_,
\* which a push into queue 1 holds: the push is not blocked.
C9_Witness ==
    /\ scen = "fine2"
    /\ Active(1) /\ Active(2)
    /\ Cur(1).op = "size" /\ pc[1] = "gt_lock" /\ Blocked(1)
    /\ Cur(2).op = "push" /\ pc[2] = "crit" /\ ~Blocked(2)

\* ------------------------------ SpecMove: one thread, queue 2 moved into queue 1
MaxMoveOps == 3      \* calls the thread of SpecMove makes

\* a = std::move(b) with a queue 1 and b queue 2, a move construction from b, and
\* push, try_pop, empty on either queue before and after them.  One thread makes the calls one after the
\* other, so no call ever runs while the source of a move is in use elsewhere.
\* The queues are of one class, BluntQueue ("moveB") or FineQueue ("moveF").
MoveCalls(k) ==
    {Call("push", k, q, 0, v, "-") : q \in {1, 2}, v \in Values}
    \cup {Call("try_pop", k, q, 0, 0, f) : q \in {1, 2}, f \in PopForms}
    \cup (IF k = "F" THEN {Call("empty", k, q, 0, 0, "-") : q \in {1, 2}} ELSE {})
    \cup {Call("move_assign", k, 1, 2, 0, "-"), Call("move_ctor", k, 0, 2, 0, "-")}

ChooseMove(t) == Choose(t, MoveCalls(IF scen = "moveB" THEN "B" ELSE "F"))

InitMove ==
    \E k \in {"B", "F"}, i1, i2 \in Counting :
        Constructed(IF k = "B" THEN Items(i1, i2) ELSE NoItems,
                    IF k = "F" THEN Items(i1, i2) ELSE NoItems,
                    NoScript, MaxMoveOps, IF k = "B" THEN "moveB" ELSE "moveF", FALSE)

MoveStep(t) ==
    \/ Fine_push_alloc(t) \/ Fine_lock_push_tail_lock(t) \/ Fine_lock_push_tail(t)
    \/ Fine_lock_push_tail_notify(t)
    \/ Fine_get_tail(t)
    \/ Fine_try_pop_lock(t) \/ Fine_try_pop(t)
    \/ Fine_empty_lock(t) \/ Fine_empty(t)
    \/ Fine_move_assign_lock(t) \/ Fine_move_assign(t) \/ Fine_assign_notify(t)
    \/ Fine_move_ctor(t)
    \/ Blunt_push_lock(t) \/ Blunt_push(t) \/ Blunt_push_notify(t)
    \/ Blunt_try_pop_lock(t) \/ Blunt_try_pop(t)
    \/ Blunt_move_assign_lock(t) \/ Blunt_move_assign(t) \/ Blunt_assign_notify(t)
    \/ Blunt_move_ctor_lock(t) \/ Blunt_move_ctor(t)

NextMove == ChooseMove(1) \/ MoveStep(1)

SpecMove == InitMove /\ [][NextMove]_vars

\* The nodes from n up to, not including, tl.
RECURSIVE Before(_, _, _)
Before(hp, n, tl) ==
    IF n = tl \/ ~Valid(hp, n) THEN {}
    ELSE {n} \cup Before([hp EXCEPT !.alive = @ \ {n}], hp.next[n], tl)

\* The structure of FineQueue q: head_ is not null, tail_ is reached from head_
\* over next_, the node at tail_ has neither data nor successor, and every node
\* before it has data.
WellFormed(q) ==
    /\ Valid(HeapNow, head_[q])
    /\ tail_[q] \in ChainOf(HeapNow, head_[q])
    /\ data_[tail_[q]] = Null
    /\ next_[tail_[q]] = Null
    /\ \A n \in Before(HeapNow, head_[q], tail_[q]) : data_[n] # Null

\* C10. FineQueue 1, which SpecMove never moves from, is well formed in every
\* state: head_ not null, tail_ reachable from head_, the node at tail_ without data
\* and successor, every node before it with one element.
C10_FineStructure == WellFormed(1)

\* C11. The step that moves FineQueue o away, by move construction or by move
\* assignment, leaves o well formed (head_ not null, tail_ reachable from head_).
C11_MovedFromValid ==
    [][\A t \in Threads, o \in Queues :
          (Active(t) /\ Cur(t).o = o /\ (Fine_move_assign(t) \/ Fine_move_ctor(t)))
              => WellFormed(o)']_vars

\* C12. The step that moves queue o into queue q, or into a new queue, gives the
\* destination exactly the sequence o held before the step, whatever q held; a
\* moved-from BluntQueue is empty (so a queue move-constructed from it is empty).
C12_MoveTransfers ==
    [][\A t \in Threads, q, o \in Queues :
          (Active(t) /\ Cur(t).o = o) =>
              /\ (Cur(t).q = q /\ Blunt_move_assign(t)) =>
                    (storage_'[q] = storage_[o] /\ storage_'[o] = <<>>)
              /\ Blunt_move_ctor(t) => (made'[t] = storage_[o] /\ storage_'[o] = <<>>)
              /\ (Cur(t).q = q /\ Fine_move_assign(t)) => Content(q)' = Content(o)
              /\ Fine_move_ctor(t) => made'[t] = Content(o)]_vars

\* A BluntQueue that held other elements has been move-assigned the elements of
\* queue 2, which is left empty.
C12_Witness ==
    /\ scen = "moveB"
    /\ ~Active(1) /\ left = MaxMoveOps - 1
    /\ storage_[1] = hPushed["B"][2] /\ storage_[1] # <<>>
    /\ hPushed["B"][1] # <<>> /\ hPushed["B"][1] # storage_[1]
    /\ storage_[2] = <<>>

\* ------------------ SpecSeq: one thread, copies, swaps and comparisons at rest
MaxSeqOps == 2       \* calls the thread of SpecSeq makes

\* push and try_pop on either queue, a copy construction from either queue, and
\* copy assignment, swap and equality between the two distinct queues.
SeqCalls(k) ==
    {Call("push", k, q, 0, v, "-") : q \in {1, 2}, v \in Values}
    \cup {Call("try_pop", k, q, 0, 0, f) : q \in {1, 2}, f \in PopForms}
    \cup {Call("copy_ctor", k, 0, o, 0, "-") : o \in {1, 2}}
    \cup {Call(op, k, q, 3 - q, 0, "-") : op \in {"copy_assign", "swap", "equal"}, q \in {1, 2}}

ChooseSeq(t) == Choose(t, SeqCalls(IF scen = "seqB" THEN "B" ELSE "F"))

InitSeq ==
    \E k \in {"B", "F"}, i1, i2 \in SeqsUpTo(MaxInit) :
        Constructed(IF k = "B" THEN Items(i1, i2) ELSE NoItems,
                    IF k = "F" THEN Items(i1, i2) ELSE NoItems,
                    NoScript, MaxSeqOps, IF k = "B" THEN "seqB" ELSE "seqF", FALSE)

SeqStep(t) ==
    \/ Blunt_push_lock(t) \/ Blunt_push(t) \/ Blunt_push_notify(t)
    \/ Blunt_try_pop_lock(t) \/ Blunt_try_pop(t)
    \/ Blunt_copy_ctor_lock(t) \/ Blunt_copy_ctor(t)
    \/ Blunt_copy_assign_lock(t) \/ Blunt_copy_assign(t) \/ Blunt_assign_notify(t)
    \/ Blunt_swap_lock(t) \/ Blunt_swap(t) \/ Blunt_swap_notify(t) \/ Blunt_swap_notify_other(t)
    \/ Blunt_equal_lock(t) \/ Blunt_equal(t)
    \/ Fine_push_alloc(t) \/ Fine_lock_push_tail_lock(t) \/ Fine_lock_push_tail(t)
    \/ Fine_lock_push_tail_notify(t)
    \/ Fine_get_tail(t)
    \/ Fine_try_pop_lock(t) \/ Fine_try_pop(t)
    \/ Fine_copy_ctor_alloc(t) \/ Fine_copy_assign_alloc(t)
    \/ Fine_lock_traverse_push_lock(t) \/ Fine_lock_traverse_push(t)
    \/ Fine_copy_assign_lock(t) \/ Fine_copy_assign(t) \/ Fine_assign_notify(t)
    \/ Fine_swap_lock(t) \/ Fine_swap(t)
    \/ Fine_equal_lock(t) \/ Fine_equal(t)

NextSeq == ChooseSeq(1) \/ SeqStep(1)

SpecSeq == InitSeq /\ [][NextSeq]_vars

\* The elements of queue q of class k, front first.
Holds(k, q) == IF k = "B" THEN storage_[q] ELSE Content(q)

\* The nodes FineQueue q owns.
NodesOf(q) == ChainOf(HeapNow, head_[q])

\* Same number of elements, pairwise equal in order.
SameSeq(a, b) == Len(a) = Len(b) /\ \A i \in 1..Len(a) : a[i] = b[i]

\* C13. At rest, the step that completes a copy construction or a copy assignment
\* from queue x gives the copy exactly the elements of x and leaves x as it was (so
\* the two compare equal); every step of a push or try_pop on one queue leaves the
\* elements of the other queue and of an earlier copy as they were; and two
\* FineQueues never own a node in common.
C13_CopyFidelity ==
    /\ [](\A x, y \in Queues : x # y => NodesOf(x) \cap NodesOf(y) = {})
    /\ [][\A t \in Threads, x, y \in Queues, k \in {"B", "F"} :
            (Active(t) /\ Cur(t).k = k) =>
                /\ (Cur(t).op = "copy_ctor" /\ Cur(t).o = x /\ todo'[t] = <<>>) =>
                      (made'[t] = Holds(k, x) /\ Holds(k, x)' = Holds(k, x))
                /\ (Cur(t).q = y /\ Cur(t).o = x
                        /\ (Blunt_copy_assign(t) \/ Fine_copy_assign(t))) =>
                      (Holds(k, y)' = Holds(k, x) /\ Holds(k, x)' = Holds(k, x))
                /\ (Cur(t).op \in {"push", "try_pop"} /\ Cur(t).q = x /\ y # x) =>
                      (Holds(k, y)' = Holds(k, y) /\ made' = made)]_vars

\* FineQueue 1 was copy-assigned from queue 2, then a value was pushed into queue
\* 2: queue 1 still holds what queue 2 held at first.
C13_Witness ==
    /\ scen = "seqF"
    /\ left = 0 /\ ~Active(1)
    /\ Content(1) = hPushed["F"][2] /\ Content(1) # hPushed["F"][1]
    /\ Len(Content(1)) = MaxInit
    /\ Len(Content(2)) = MaxInit + 1
    /\ SubSeq(Content(2), 1, MaxInit) = Content(1)

\* C14. At rest, the exchange step of a.swap(b) gives a exactly the sequence b
\* held before it and b exactly the sequence a held (so a second swap restores both).
C14_SwapExchange ==
    [][\A t \in Threads, a, b \in Queues, k \in {"B", "F"} :
          (Active(t) /\ Cur(t).k = k /\ Cur(t).q = a /\ Cur(t).o = b
                /\ (Blunt_swap(t) \/ Fine_swap(t))) =>
              (Holds(k, a)' = Holds(k, b) /\ Holds(k, b)' = Holds(k, a))]_vars

\* The second call, a swap, has just exchanged two queues that started with
\* different elements, and both hold again what they started with: the first
\* call was a swap too.
C14_Witness ==
    /\ scen = "seqB"
    /\ left = 0 /\ Active(1) /\ Cur(1).op = "swap" /\ pc[1] = "notify"
    /\ storage_[1] = hPushed["B"][1] /\ storage_[2] = hPushed["B"][2]
    /\ Len(storage_[1]) = MaxInit /\ Len(storage_[2]) = MaxInit
    /\ storage_[1] # storage_[2]

\* C15. The comparing step of a == b, taken with every lock of both queues held,
\* returns true exactly when a and b then hold the same number of elements,
\* pairwise equal in order.
C15_EqualityStructural ==
    [][\A t \in Threads, a, b \in Queues, k \in {"B", "F"} :
          (Active(t) /\ Cur(t).k = k /\ Cur(t).q = a /\ Cur(t).o = b
                /\ (Blunt_equal(t) \/ Fine_equal(t))) =>
              ret'[t] = Bool(SameSeq(Holds(k, a), Holds(k, b)))]_vars

\* Two FineQueues of the same length that differ in their last element are being
\* compared.
C15_Witness ==
    /\ scen = "seqF"
    /\ Active(1) /\ Cur(1).op = "equal" /\ pc[1] = "crit"
    /\ Len(Content(1)) = MaxInit /\ Len(Content(2)) = MaxInit
    /\ Content(1)[1] = Content(2)[1]
    /\ Content(1)[MaxInit] # Content(2)[MaxInit]

\* ------------------------- SpecSelf: one thread, one comparison, q == q included
\* The one call of thread 1: a == b for any two queues a and b of one class, the
\* same instance on both sides included.
InitSelf ==
    \E k \in {"B", "F"}, i1, i2 \in SeqsUpTo(MaxInit), a, b \in {1, 2} :
        Constructed(IF k = "B" THEN Items(i1, i2) ELSE NoItems,
                    IF k = "F" THEN Items(i1, i2) ELSE NoItems,
                    Script(<<Call("equal", k, a, b, 0, "-")>>, <<>>, <<>>), 0, "self", FALSE)

SelfStep(t) ==
    \/ Blunt_equal_lock(t) \/ Blunt_equal(t)
    \/ Fine_equal_lock(t) \/ Fine_equal(t)

NextSelf == SelfStep(1)

\* A thread that can take a step is scheduled.
SpecSelf == InitSelf /\ [][NextSelf]_vars /\ WF_vars(SelfStep(1))

\* C16. q == q, the same instance on both sides, returns, and returns true.
C16_EqualityReflexive ==
    \A t \in Threads :
        (Active(t) /\ Cur(t).op = "equal" /\ Cur(t).q = Cur(t).o)
            ~> (~Active(t) /\ ret[t] = Bool(TRUE))


\* ======================================================================
\* FineQueue calls that overlap: the parallel tests
\* ======================================================================
\* The value thread t pushes in the parallel tests (the tests push distinct constants).
PushedBy(t) == ((t - 1) % MaxVal) + 1

\* FineQueueTests.ParallelPush / ParallelEmplace: two threads, one push or emplace
\* each, into the empty queue 1.
InitParPush ==
    \E op1, op2 \in {"push", "emplace"} :
        Constructed(NoItems, NoItems,
                    Script(<<Call(op1, "F", 1, 0, PushedBy(1), "-")>>,
                           <<Call(op2, "F", 1, 0, PushedBy(2), "-")>>, <<>>),
                    0, "par_push", FALSE)

\* FineQueueTests.ParallelValueTryPop / ParallelRefTryPop: k try_pops over two threads
\* on queue 1, which holds at least k elements.
TryPops(f, n) == [j \in 1..n |-> Call("try_pop", "F", 1, 0, 0, f)]

InitParPop ==
    \E items \in SeqsUpTo(MaxInit + 1), f1, f2 \in PopForms, n2 \in {1, 2} :
        /\ Len(items) >= 1 + n2
        /\ Constructed(NoItems, Items(items, <<>>),
                       Script(TryPops(f1, 1), TryPops(f2, n2), <<>>), 0, "par_pop", TRUE)

\* FineQueueTests.ParallelCopyAssigned and the copy constructor likewise: thread 1
\* copies queue 2 (into queue 1, or into a new queue) while thread 2 pushes to queue 2.
InitParCopy ==
    \E items \in SeqsUpTo(MaxInit), v1, v2 \in Values,
       c \in {Call("copy_ctor", "F", 0, 2, 0, "-"), Call("copy_assign", "F", 1, 2, 0, "-")} :
        Constructed(NoItems, Items(<<>>, items),
                    Script(<<c>>,
                           <<Call("push", "F", 2, 0, v1, "-"), Call("push", "F", 2, 0, v2, "-")>>,
                           <<>>),
                    0, "par_copy", FALSE)

\* FineQueueTests.ParallelCopyConstruction: thread 1 copy-constructs from the donor
\* (queue 2) while thread 2 calls try_pop on it and thread 3 pushes to it.  The sleeps
\* of the test order nothing: every interleaving of the three calls is possible.
InitParCopyPop ==
    \E items \in SeqsUpTo(MaxInit), f \in PopForms :
        Constructed(NoItems, Items(<<>>, items),
                    Script(<<Call("copy_ctor", "F", 0, 2, 0, "-")>>,
                           <<Call("try_pop", "F", 2, 0, 0, f)>>,
                           <<Call("push", "F", 2, 0, PushedBy(3), "-")>>),
                    0, "par_copy_pop", FALSE)

\* size() of queue 1 by thread 1 while thread 2 pushes to it twice.
InitParSize ==
    \E items \in SeqsUpTo(MaxInit), v1, v2 \in Values :
        Constructed(NoItems, Items(items, <<>>),
                    Script(<<Call("size", "F", 1, 0, 0, "-")>>,
                           <<Call("push", "F", 1, 0, v1, "-"), Call("push", "F", 1, 0, v2, "-")>>,
                           <<>>),
                    0, "par_size", FALSE)

\* Thread 1 copy-assigns queue 2 to queue 1 while thread 2 calls size() or try_pop on
\* queue 1 and thread 3 pushes to queue 1.
InitParAssign ==
    \E i1, i2 \in Counting,
       c \in {Call("size", "F", 1, 0, 0, "-"), Call("try_pop", "F", 1, 0, 0, "val"),
              Call("try_pop", "F", 1, 0, 0, "ref")} :
        Constructed(NoItems, Items(i1, i2),
                    Script(<<Call("copy_assign", "F", 1, 2, 0, "-")>>, <<c>>,
                           <<Call("push", "F", 1, 0, PushedBy(3), "-")>>),
                    0, "par_assign", FALSE)

InitPar ==
    InitParPush \/ InitParPop \/ InitParCopy \/ InitParCopyPop \/ InitParSize \/ InitParAssign

ParStep(t) ==
    \/ Fine_push_alloc(t) \/ Fine_emplace_alloc(t)
    \/ Fine_lock_push_tail_lock(t) \/ Fine_lock_push_tail(t) \/ Fine_lock_push_tail_notify(t)
    \/ Fine_get_tail(t)
    \/ Fine_try_pop_lock(t) \/ Fine_try_pop(t)
    \/ Fine_copy_ctor_alloc(t) \/ Fine_copy_assign_alloc(t)
    \/ Fine_lock_traverse_push_lock(t) \/ Fine_lock_traverse_push(t)
    \/ Fine_copy_assign_lock(t) \/ Fine_copy_assign(t) \/ Fine_assign_notify(t)
    \/ Fine_size_lock(t) \/ Fine_size(t)

NextPar == \E t \in Threads : ParStep(t)

SpecPar == InitPar /\ [][NextPar]_vars

\* --------------------------------------------------- properties under SpecPar
IsPrefix(a, b) == Len(a) <= Len(b) /\ SubSeq(b, 1, Len(a)) = a

\* C17: two threads that each push or emplace one value into an empty FineQueue, with
\* no pops, leave the queue holding exactly the two values, in one of the two orders.
C17_ParallelPushKeepsBoth ==
    scen = "par_push" =>
        /\ ~ub
        /\ AllDone => Content(1) \in {<<PushedBy(1), PushedBy(2)>>, <<PushedBy(2), PushedBy(1)>>}

\* Both pushes are over and the value of thread 2 went in first.
C17_Witness ==
    /\ scen = "par_push"
    /\ AllDone
    /\ Content(1) = <<PushedBy(2), PushedBy(1)>>
    /\ PushedBy(1) # PushedBy(2)


\* C18: k try_pops (either form) spread over the threads of a FineQueue that holds
\* n >= k elements, with nothing pushed: every call succeeds, the values returned
\* are the first k elements, each once, and the queue is left with the last n - k
\* elements in their order.
C18_ParallelTryPopsTakePrefix ==
    scen = "par_pop" =>
        LET first == hPushed["F"][1]
            taken == hPopped["F"][1]
        IN  /\ ~ub
            /\ Null \notin Range(taken)
            /\ taken \o Content(1) = first
            /\ \A t \in Threads : ret[t] # Null => ret[t] \in Range(taken) \cup {Bool(TRUE)}
            /\ \A t \in Threads : out[t] # Null => out[t] \in Range(taken)
            /\ AllDone => Len(taken) = Len(first) - Len(Content(1))

\* Three try_pops are over, the two of thread 2 around the one of thread 1: thread 1
\* got the second element, thread 2 the third one last, and one element is left.
C18_Witness ==
    /\ scen = "par_pop"
    /\ AllDone
    /\ Len(hPopped["F"][1]) = 3
    /\ Len(Content(1)) = Len(hPushed["F"][1]) - 3
    /\ hPushed["F"][1][1] # hPushed["F"][1][2]
    /\ hPushed["F"][1][2] # hPushed["F"][1][3]
    /\ ret[1] = hPushed["F"][1][2]
    /\ ret[2] = hPushed["F"][1][3]


\* b is a followed by some of what c holds after a: a is a prefix of b, b of c.
Between(a, b, c) == IsPrefix(a, b) /\ IsPrefix(b, c)

\* The step of thread t that ends the traversal of a copy.
TraversalEnds(t) ==
    /\ Active(t)
    /\ Cur(t).op \in {"copy_ctor", "copy_assign"}
    /\ pc[t] = "gt_done"
    /\ loc[t].i = loc[t].tl
    /\ Fine_lock_traverse_push(t)

\* C19: a FineQueue copy-constructed or copy-assigned from a source that other threads
\* only push to equals what the source held when its headMutex_ was taken, followed
\* by an in-order prefix of the elements pushed during the traversal: nothing is
\* omitted, reordered or duplicated.
C19_CopyUnderGrowth ==
    [][\A t \in Threads, q \in Queues :
          (scen = "par_copy" /\ Active(t) /\ Cur(t).o = q) =>
              /\ TraversalEnds(t) =>
                    Between(loc[t].seen, Elements(HeapNow, loc[t].h, loc[t].t), Content(q))
              /\ (TraversalEnds(t) /\ Cur(t).op = "copy_ctor") =>
                    Between(loc[t].seen, made'[t], Content(q))
              /\ (Cur(t).op = "copy_assign" /\ Fine_copy_assign(t)) =>
                    /\ Between(loc[t].seen, Content(1)', Content(q)')
                    /\ Content(q)' = Content(q)]_vars

\* The copy assignment is over with queue 1 holding the source's two initial elements
\* and the first value thread 2 pushed, which differs from the second one.
C19_Witness ==
    /\ scen = "par_copy"
    /\ ~Active(1)
    /\ made[1] = <<>>
    /\ Len(Content(1)) = MaxInit + 1
    /\ Len(Content(2)) = MaxInit + 2
    /\ IsPrefix(Content(1), Content(2))
    /\ Content(2)[MaxInit + 1] # Content(2)[MaxInit + 2]


\* The donor's contents before the three calls of ParallelCopyConstruction.
DonorInitial == hPushed["F"][2]

DropFirst(s) == IF s = <<>> THEN <<>> ELSE Tail(s)

SizeReturns(t) ==
    /\ Active(t)
    /\ Cur(t).op = "size"
    /\ pc[t] = "gt_done"
    /\ loc[t].i = loc[t].tl
    /\ Fine_size(t)

\* C21: with concurrent pushers, size() of a FineQueue returns a value between the
\* number of elements the queue held when size() took headMutex_ and the number it
\* holds when size() releases it; the walk never goes past the tail node; on a queue
\* nobody touches meanwhile the value is the exact element count.
C21_SizeWeakGuarantee ==
    [][\A t \in Threads :
          (scen = "par_size" /\ Active(t) /\ Cur(t).op = "size") =>
              /\ ~ub'
              /\ SizeReturns(t) =>
                    /\ Len(loc[t].seen) <= ret'[t]
                    /\ ret'[t] <= Len(Content(Cur(t).q))
                    /\ (loc[t].seen = Content(Cur(t).q)) => ret'[t] = Len(Content(Cur(t).q))]_vars

\* size() is about to return one more than the queue held when it took headMutex_,
\* and the queue holds a further element that the walk has not seen.
C21_Witness ==
    /\ scen = "par_size"
    /\ Active(1)
    /\ pc[1] = "gt_done"
    /\ loc[1].i = loc[1].tl
    /\ Len(loc[1].seen) = MaxInit
    /\ loc[1].len = MaxInit + 1
    /\ Len(Content(1)) = MaxInit + 2


\* ------------------------------------- more properties under Spec (push and pop)
\* C22: no spurious removal.  A wait_and_pop (either form, either class) returns only
\* from a state in which the queue is not empty: it returns the front element, which
\* was pushed, and removes just that one; no step of it pops from an empty deque or
\* takes the dummy tail node of a FineQueue (no undefined behaviour), whether a
\* waiter was woken for nothing or a try_pop took the element first.
C22_NoSpuriousRemoval ==
    [][\A t \in Threads :
          (Active(t) /\ Cur(t).op = "wait_and_pop") =>
              /\ ~ub'
              /\ todo'[t] # todo[t] =>
                    /\ Queue1 # <<>>
                    /\ Queue1' = Tail(Queue1)
                    /\ Head(Queue1) \in Range(hPushed[RunClass][1])
                    /\ IF Cur(t).f = "ref"
                       THEN ret'[t] = Bool(TRUE) /\ out'[t] = Head(Queue1)
                       ELSE ret'[t] = Head(Queue1) /\ out'[t] = out[t]]_vars

\* A wait_and_pop was woken by the notification of the one push there was (no
\* spurious wakeup), and a try_pop has taken the element before the woken thread
\* could lock again: the queue it is about to test is empty.
C22_Witness ==
    \E t \in Threads :
        /\ Active(t) /\ Cur(t).op = "wait_and_pop"
        /\ pc[t] = "wake" /\ loc[t].sw = 0
        /\ Len(hPushed[RunClass][1]) = 1
        /\ hPopped[RunClass][1] = hPushed[RunClass][1]
        /\ Queue1 = <<>>


\* The values the pops removed, in the order of the removals (under headMutex_), the
\* pops that found the queue empty left out.
Removed(k, q) == SelectSeq(hPopped[k][q], LAMBDA x : x # Null)

\* C23: FineQueue linearization order.  In any interleaving of pushes and pops on one
\* FineQueue the values removed, in the order the removers held headMutex_, are at
\* every moment a prefix of the values appended, in the order the pushers held
\* tailMutex_ (the initializer list first).
C23_FineLinearization ==
    scen = "fine" => IsPrefix(Removed("F", 1), hPushed["F"][1])

\* A push ran while a pop was under way, and two different values have been removed,
\* all that was ever appended.
C23_Witness ==
    /\ scen = "fine"
    /\ overlap
    /\ Len(Removed("F", 1)) = 2
    /\ Removed("F", 1) = hPushed["F"][1]
    /\ Removed("F", 1)[1] # Removed("F", 1)[2]


\* ------------- SpecStrand: two waiters and an assignment or swap that installs
\* two or more elements
\* Threads 2 and 3 call wait_and_pop on the empty queue 1 while thread 1 assigns
\* queue 2, which holds at least two elements, to it, or swaps the two.
InitStrand ==
    \E k \in {"B", "F"}, items \in {s \in SeqsUpTo(MaxInit) : Len(s) >= 2}, f \in PopForms,
       op \in {"copy_assign", "move_assign", "swap"} :
        /\ k = "F" => op # "swap"
        /\ Constructed(IF k = "B" THEN Items(<<>>, items) ELSE NoItems,
                       IF k = "F" THEN Items(<<>>, items) ELSE NoItems,
                       Script(<<Call(op, k, 1, 2, 0, "-")>>, Waits(k, f), Waits(k, f)),
                       0, IF k = "B" THEN "strandB" ELSE "strandF", FALSE)

StrandStep(t) ==
    \/ Blunt_wait_and_pop_lock(t) \/ Blunt_wait_and_pop(t) \/ Blunt_wait_block(t)
    \/ Blunt_wait_reacquire(t)
    \/ Blunt_copy_assign_lock(t) \/ Blunt_copy_assign(t)
    \/ Blunt_move_assign_lock(t) \/ Blunt_move_assign(t) \/ Blunt_assign_notify(t)
    \/ Blunt_swap_lock(t) \/ Blunt_swap(t) \/ Blunt_swap_notify(t) \/ Blunt_swap_notify_other(t)
    \/ Fine_get_tail(t)
    \/ Fine_wait_for_head_lock(t) \/ Fine_wait_for_head(t) \/ Fine_wait_block(t)
    \/ Fine_wait_reacquire(t)
    \/ Fine_copy_assign_alloc(t) \/ Fine_lock_traverse_push_lock(t) \/ Fine_lock_traverse_push(t)
    \/ Fine_copy_assign_lock(t) \/ Fine_copy_assign(t)
    \/ Fine_move_assign_lock(t) \/ Fine_move_assign(t) \/ Fine_assign_notify(t)

NextStrand ==
    \E t \in Threads : StrandStep(t) \/ Blunt_spurious_wakeup(t) \/ Fine_spurious_wakeup(t)

\* A thread that can take a step is scheduled; a spurious wakeup need never happen.
SpecStrand == InitStrand /\ [][NextStrand]_vars /\ \A t \in Threads : WF_vars(StrandStep(t))

StrandClass == IF scen = "strandB" THEN "B" ELSE "F"

\* The threads inside a wait_and_pop of queue 1, and those of them that sleep in wait().
InWait == {t \in Threads : Active(t) /\ Cur(t).op = "wait_and_pop" /\ Cur(t).q = 1}
Sleeping == {t \in InWait : pc[t] = "parked"}

\* C24: no waiter is stranded on a non-empty queue.  Whenever queue 1 holds an element
\* and some thread sleeps in its wait_and_pop, eventually one of the threads then
\* inside wait_and_pop returns or the queue becomes empty; so too after an
\* assignment or a swap has installed two elements while two threads were waiting.
C24_NoWaiterStranded ==
    \A S \in SUBSET Threads :
        (S # {} /\ S = InWait /\ Sleeping # {} /\ Holds(StrandClass, 1) # <<>>)
            ~> ((\E t \in S : ~Active(t)) \/ Holds(StrandClass, 1) = <<>>)


\* ---------- SpecTerm: one call that is not a wait_and_pop, next to a producer
\* Thread 1 makes one call other than wait_and_pop (the two-queue calls on queues 1
\* and 2) and thread 2 pushes twice to one of the queues; thread 3 may be inside a
\* wait_and_pop of queue 1.
TermCalls(k) ==
    {Call(op, k, 1, 0, PushedBy(1), "-") : op \in {"push", "emplace"}}
    \cup {Call("try_pop", k, 1, 0, 0, f) : f \in PopForms}
    \cup {Call(op, k, 1, 0, 0, "-") : op \in {"empty", "size"}}
    \cup {Call("copy_ctor", k, 0, 2, 0, "-")}
    \cup {Call(op, k, 1, 2, 0, "-") : op \in {"copy_assign", "swap", "equal"}}

InitTerm ==
    \E k \in {"B", "F"}, items \in Counting, qp \in {1, 2}, waiter \in BOOLEAN :
      \E c \in TermCalls(k) :
        Constructed(IF k = "B" THEN Items(items, items) ELSE NoItems,
                    IF k = "F" THEN Items(items, items) ELSE NoItems,
                    Script(<<c>>,
                           <<Call("push", k, qp, 0, PushedBy(2), "-"),
                             Call("push", k, qp, 0, PushedBy(2), "-")>>,
                           IF waiter /\ items = <<>> THEN Waits(k, "val") ELSE <<>>),
                    0, "term", FALSE)

TermStep(t) ==
    \/ Blunt_push_lock(t) \/ Blunt_push(t) \/ Blunt_emplace_lock(t) \/ Blunt_emplace(t)
    \/ Blunt_push_notify(t)
    \/ Blunt_try_pop_lock(t) \/ Blunt_try_pop(t)
    \/ Blunt_wait_and_pop_lock(t) \/ Blunt_wait_and_pop(t) \/ Blunt_wait_block(t)
    \/ Blunt_wait_reacquire(t)
    \/ Blunt_empty_lock(t) \/ Blunt_empty(t) \/ Blunt_size_lock(t) \/ Blunt_size(t)
    \/ Blunt_copy_ctor_lock(t) \/ Blunt_copy_ctor(t)
    \/ Blunt_copy_assign_lock(t) \/ Blunt_copy_assign(t) \/ Blunt_assign_notify(t)
    \/ Blunt_swap_lock(t) \/ Blunt_swap(t) \/ Blunt_swap_notify(t) \/ Blunt_swap_notify_other(t)
    \/ Blunt_equal_lock(t) \/ Blunt_equal(t)
    \/ Fine_push_alloc(t) \/ Fine_emplace_alloc(t) \/ Fine_lock_push_tail_lock(t)
    \/ Fine_lock_push_tail(t) \/ Fine_lock_push_tail_notify(t)
    \/ Fine_get_tail(t)
    \/ Fine_try_pop_lock(t) \/ Fine_try_pop(t)
    \/ Fine_wait_for_head_lock(t) \/ Fine_wait_for_head(t) \/ Fine_wait_block(t)
    \/ Fine_wait_reacquire(t)
    \/ Fine_size_lock(t) \/ Fine_size(t) \/ Fine_empty_lock(t) \/ Fine_empty(t)
    \/ Fine_copy_ctor_alloc(t) \/ Fine_copy_assign_alloc(t)
    \/ Fine_lock_traverse_push_lock(t) \/ Fine_lock_traverse_push(t)
    \/ Fine_copy_assign_lock(t) \/ Fine_copy_assign(t) \/ Fine_assign_notify(t)
    \/ Fine_swap_lock(t) \/ Fine_swap(t)
    \/ Fine_equal_lock(t) \/ Fine_equal(t)

NextTerm == \E t \in Threads : TermStep(t)

\* A thread that can take a step is scheduled.
SpecTerm == InitTerm /\ [][NextTerm]_vars /\ \A t \in Threads : WF_vars(TermStep(t))

\* Thread t sleeps or is about to sleep in the wait() of a condition variable, or has
\* been woken from it.
OnCondition(t) ==
    \/ pc[t] \in {"park", "parked", "wake"}
    \/ \E q \in Queues : t \in isPopulated_[q] \cup isPoppable_[q]

InitSwap ==
    \E k \in {"B", "F"}, i1, i2 \in Counting, a, qa, qb, qc \in {1, 2},
       op3 \in {"try_pop", "wait_and_pop"} :
        Constructed(IF k = "B" THEN Items(i1, i2) ELSE NoItems,
                    IF k = "F" THEN Items(i1, i2) ELSE NoItems,
                    Script(<<Call("swap", k, a, 3 - a, 0, "-")>>,
                           <<Call("push", k, qa, 0, PushedBy(2), "-"),
                             Call("try_pop", k, qb, 0, 0, "val")>>,
                           <<Call(op3, k, qc, 0, 0, "ref")>>),
                    0, IF k = "B" THEN "swapB" ELSE "swapF", TRUE)

SwapStep(t) ==
    \/ Blunt_push_lock(t) \/ Blunt_push(t) \/ Blunt_push_notify(t)
    \/ Blunt_try_pop_lock(t) \/ Blunt_try_pop(t)
    \/ Blunt_wait_and_pop_lock(t) \/ Blunt_wait_and_pop(t) \/ Blunt_wait_block(t)
    \/ Blunt_wait_reacquire(t) \/ Blunt_spurious_wakeup(t)
    \/ Blunt_swap_lock(t) \/ Blunt_swap(t) \/ Blunt_swap_notify(t) \/ Blunt_swap_notify_other(t)
    \/ Fine_push_alloc(t) \/ Fine_lock_push_tail_lock(t) \/ Fine_lock_push_tail(t)
    \/ Fine_lock_push_tail_notify(t)
    \/ Fine_get_tail(t)
    \/ Fine_try_pop_lock(t) \/ Fine_try_pop(t)
    \/ Fine_wait_for_head_lock(t) \/ Fine_wait_for_head(t) \/ Fine_wait_block(t)
    \/ Fine_wait_reacquire(t) \/ Fine_spurious_wakeup(t)
    \/ Fine_swap_lock(t) \/ Fine_swap(t)

NextSwap == \E t \in Threads : SwapStep(t)

SpecSwap == InitSwap /\ [][NextSwap]_vars

SwapClass == IF scen = "swapB" THEN "B" ELSE "F"

\* C26: swap is atomic for concurrent producers and consumers.  While a.swap(b) runs
\* next to pushes and pops on a and on b, in every state every value appended so far
\* is, as many times as it was appended, in a, in b or returned by a pop, and in no
\* other place; and each FineQueue has its tail_ on the list its head_ starts.
C26_SwapAtomic ==
    scen \in {"swapB", "swapF"} =>
        LET k == SwapClass
            pushed == hPushed[k][1] \o hPushed[k][2]
            queued == Holds(k, 1) \o Holds(k, 2)
            popped == Removed(k, 1) \o Removed(k, 2)
        IN  /\ ~ub
            /\ \A v \in Values : Count(v, pushed) = Count(v, queued) + Count(v, popped)
            /\ Len(pushed) = Len(queued) + Len(popped)
            /\ k = "F" => WellFormed(1) /\ WellFormed(2)

\* The swap of two FineQueues is over, the push, which appended before the swap, and
\* both pops have returned: the value pushed to one queue is in the other, behind
\* what that one held, and the two pops have taken the first element of each list.
C26_Witness ==
    /\ scen = "swapF"
    /\ AllDone
    /\ Len(hPushed["F"][1]) = MaxInit + 1
    /\ Len(hPushed["F"][2]) = MaxInit
    /\ Content(2) = Tail(hPushed["F"][1])
    /\ Content(1) = Tail(hPushed["F"][2])
    /\ Len(Removed("F", 1)) + Len(Removed("F", 2)) = 2


\* ---------------------------------------------- more properties under SpecPar
\* What queue 1 can hold while queue 2 is copy-assigned to it, one try_pop and one
\* push of PushedBy(3) running on it: the old or the new list, the pushed value at its
\* end or not, its first element taken or not.
AssignOld == hPushed["F"][1]
AssignNew == hPushed["F"][2]
AssignLists ==
    LET whole == {AssignOld, Append(AssignOld, PushedBy(3)),
                  AssignNew, Append(AssignNew, PushedBy(3))}
    IN  whole \cup {DropFirst(x) : x \in whole}

AssignAtomicState ==
    /\ ~ub
    /\ WellFormed(1)
    /\ Content(1) \in AssignLists
    /\ Content(2) = AssignNew
    /\ \A t \in Threads :
          (Active(t) /\ Cur(t).op = "copy_assign") =>
              /\ pc[t] \in {"start", "lock_src", "gt_lock", "gt_done", "lock_self"} =>
                    headMutex_[1] # t /\ tailMutex_[1] # t
              /\ pc[t] \in {"lock_self", "crit"} =>
                    Elements(HeapNow, loc[t].h, loc[t].t) = AssignNew
              /\ pc[t] = "crit" => headMutex_[1] = t /\ tailMutex_[1] = t

\* C27: FineQueue copy assignment replaces the target atomically.  The new list is
\* complete before either lock of the target is taken, and head_ and tail_ are then
\* replaced in one step under both: the target holds the whole old or the whole new
\* list in every state, a size() or a try_pop on it sees one of the two (a try_pop
\* finds nothing only if the list ended at its head when it read tail_), and a push
\* to it goes to the end of the old list or of the new one, never to a freed node.
C27_CopyAssignAtomic ==
    [][scen = "par_assign" =>
          /\ AssignAtomicState'
          /\ \A t \in Threads :
                /\ SizeReturns(t) =>
                      /\ loc[t].seen \in AssignLists
                      /\ Between(loc[t].seen, Content(1), Content(1)')
                      /\ Len(loc[t].seen) <= ret'[t] /\ ret'[t] <= Len(Content(1))
                /\ (Active(t) /\ Cur(t).op = "try_pop" /\ todo'[t] # todo[t]) =>
                      \/ /\ head_[1] = loc[t].tl
                         /\ Content(1)' = Content(1)
                         /\ ret'[t] = Null
                      \/ /\ Content(1) # <<>>
                         /\ Content(1)' = Tail(Content(1))
                         /\ Head(Content(1)) \in {ret'[t], out'[t]}
                /\ (Active(t) /\ IsPush(Cur(t)) /\ Fine_lock_push_tail(t)) =>
                      Content(1)' = Append(Content(1), Cur(t).v)]_vars

\* The assignment is over and the pushed value, which differs from the last element
\* of the new list, is at the end of it; the old list had fewer elements and size()
\* has returned their number.
C27_Witness ==
    /\ scen = "par_assign"
    /\ AllDone
    /\ Len(AssignNew) = MaxInit
    /\ Len(AssignOld) = MaxInit - 1
    /\ Content(1) = Append(AssignNew, PushedBy(3))
    /\ AssignNew[MaxInit] # PushedBy(3)
    /\ ret[2] = Len(AssignOld)
    /\ out[2] = Null


\* --------------------------------------------- more properties under SpecFine
\* The mutexes thread t owns.
Held(t) ==
    {H(q) : q \in {x \in Queues : headMutex_[x] = t}}
    \cup {T(q) : q \in {x \in Queues : tailMutex_[x] = t}}
    \cup {M(q) : q \in {x \in Queues : mutex_[x] = t}}

\* C28: a FineQueue push or emplace takes only the tail lock.  The new dummy node
\* exists before any lock is taken, the call then owns tailMutex_ of its queue and
\* nothing else, never a headMutex_, and only the owner of that tailMutex_ can make
\* it wait: it goes on while another thread owns the queue's headMutex_.
C28_PushTakesTailLockOnly ==
    \A t \in Threads :
        (Active(t) /\ Cur(t).k = "F" /\ IsPush(Cur(t))) =>
            LET q == Cur(t).q IN
            /\ pc[t] \in {"start", "lock_tail", "notify"} => Held(t) = {}
            /\ pc[t] = "crit" => Held(t) = {T(q)}
            /\ pc[t] \in {"lock_tail", "crit"} => Valid(HeapNow, loc[t].nw)
            /\ Blocked(t) => pc[t] = "lock_tail" /\ tailMutex_[q] \notin {Null, t}

\* A try_pop owns headMutex_ of queue 1 and has read tail_, and a push has appended
\* to the queue since (tail_ has moved on) and is about to notify.
C28_Witness ==
    \E t, u \in Threads :
        /\ Active(t) /\ Cur(t).op = "push" /\ Cur(t).q = 1 /\ pc[t] = "notify"
        /\ Active(u) /\ Cur(u).op = "try_pop" /\ Cur(u).q = 1 /\ pc[u] = "gt_done"
        /\ headMutex_[1] = u
        /\ loc[u].tl # tail_[1]
        /\ next_[loc[u].tl] = tail_[1]


\* The nodes whose data_ or next_ the next step of thread t reads: the head node a pop
\* takes, the node a size() or a copy traversal stands on, the nodes a comparison
\* walks over.
ReadsNow(t) ==
    IF ~Active(t) \/ Cur(t).k # "F" THEN {}
    ELSE LET c == Cur(t) IN
         IF c.op \in {"try_pop", "wait_and_pop"} /\ pc[t] = "gt_done" /\ head_[c.q] # loc[t].tl
         THEN {head_[c.q]}
         ELSE IF c.op \in {"size", "copy_ctor", "copy_assign"} /\ pc[t] = "gt_done"
                 /\ loc[t].i # loc[t].tl
         THEN {loc[t].i}
         ELSE IF c.op = "equal" /\ pc[t] = "crit"
         THEN Before(HeapNow, head_[c.q], tail_[c.q]) \cup Before(HeapNow, head_[c.o], tail_[c.o])
         ELSE {}

\* The node whose data_ and next_ the next step of thread t writes: populate in
\* lock_push_tail.
WritesNow(t) ==
    IF Active(t) /\ Cur(t).k = "F" /\ IsPush(Cur(t)) /\ pc[t] = "crit"
    THEN {tail_[Cur(t).q]}
    ELSE {}

\* C29: no node is accessed by a producer and a reader at once.  A popping, counting,
\* copying or comparing thread reads data_ or next_ of a node only when it has seen,
\* under tailMutex_, that the node is not the tail, and the node is not the tail_ of
\* any queue; a producer writes the node at tail_ owning tailMutex_; in no state is
\* one thread about to write a node that another is about to read.
C29_NoProducerReaderRace ==
    /\ \A t, u \in Threads : t # u => WritesNow(t) \cap ReadsNow(u) = {}
    /\ \A t \in Threads :
          /\ WritesNow(t) # {} => tailMutex_[Cur(t).q] = t
          /\ \A n \in ReadsNow(t) :
                /\ \A q \in Queues : n # tail_[q]
                /\ Cur(t).op # "equal" => n # loc[t].tl

\* A size() of queue 1 stands on a node while a push to queue 1 owns tailMutex_ and is
\* about to write the tail node, the successor of the node size() stands on.
C29_Witness ==
    \E t, u \in Threads :
        /\ Active(t) /\ Cur(t).op = "push" /\ Cur(t).q = 1
        /\ Active(u) /\ Cur(u).op = "size" /\ Cur(u).q = 1
        /\ WritesNow(t) = {tail_[1]}
        /\ ReadsNow(u) # {}
        /\ \A n \in ReadsNow(u) : next_[n] = tail_[1]


\* C30: the lock hierarchy of FineQueue.  A thread that asks for a mutex while it owns
\* one owns the headMutex_ of a queue, and nothing else, and asks for the tailMutex_
\* of that queue; a thread that owns a tailMutex_ asks for nothing, so none waits for a
\* headMutex_ owning a tailMutex_; and the acquisitions of several mutexes at once
\* (copy assignment, swap, equality) start from owning none.
C30_LockHierarchy ==
    \A t \in Threads :
        LET want == Range(Wants(t)) IN
        /\ (\E q \in Queues : tailMutex_[q] = t) => want = {}
        /\ (want # {} /\ Held(t) # {}) =>
              \E q \in Queues : Held(t) = {H(q)} /\ want = {T(q)}
        /\ Cardinality(want) > 1 => Held(t) = {}

\* A try_pop owns headMutex_ of queue 1 and waits in get_tail() for tailMutex_, which
\* an emplace owns.
C30_Witness ==
    \E t, u \in Threads :
        /\ Active(t) /\ Cur(t).op = "try_pop" /\ Cur(t).q = 1 /\ pc[t] = "gt_lock"
        /\ Held(t) = {H(1)} /\ Blocked(t)
        /\ Active(u) /\ Cur(u).op = "emplace" /\ Held(u) = {T(1)}

\* ======================================================================
\* Moves of the coarse queues next to a user of the source
\* ---------------- SpecRvalue: a move from queue 2 while another thread uses queue 2
\* The queues are BluntQueues ("rvalueB") or ThreadSafeQueues ("rvalueS").  Thread 1
\* makes one call with queue 2 as its source: a = std::move(b), a move construction
\* from b, a = b or a copy construction from b (a queue 1, b queue 2).  Thread 2 makes
\* one call on queue 2, thread 3 either waits for an element of queue 1 or does nothing.
RvalueCalls(k) ==
    {Call("move_assign", k, 1, 2, 0, "-"), Call("move_ctor", k, 0, 2, 0, "-"),
     Call("copy_assign", "B", 1, 2, 0, "-"), Call("copy_ctor", "B", 0, 2, 0, "-")}

SourceCalls ==
    {Call("push", "B", 2, 0, v, "-") : v \in Values}
    \cup {Call("try_pop", "B", 2, 0, 0, f) : f \in PopForms}
    \cup {Call(op, "B", 2, 0, 0, "-") : op \in {"empty", "size"}}
    \cup {Call(op, "B", 2, 1, 0, "-") : op \in {"swap", "equal"}}

InitRvalue ==
    \E k \in {"B", "S"}, i1, i2 \in Counting, w \in BOOLEAN :
        \E c \in RvalueCalls(k), d \in SourceCalls :
            Constructed(Items(i1, i2), NoItems,
                        Script(<<c>>, <<d>>, IF w THEN Waits("B", "val") ELSE <<>>),
                        0, IF k = "B" THEN "rvalueB" ELSE "rvalueS", FALSE)

RvalueStep(t) ==
    \/ Blunt_push_lock(t) \/ Blunt_push(t) \/ Blunt_push_notify(t)
    \/ Blunt_try_pop_lock(t) \/ Blunt_try_pop(t)
    \/ Blunt_empty_lock(t) \/ Blunt_empty(t) \/ Blunt_size_lock(t) \/ Blunt_size(t)
    \/ Blunt_swap_lock(t) \/ Blunt_swap(t) \/ Blunt_swap_notify(t) \/ Blunt_swap_notify_other(t)
    \/ Blunt_equal_lock(t) \/ Blunt_equal(t)
    \/ Blunt_wait_and_pop_lock(t) \/ Blunt_wait_and_pop(t) \/ Blunt_wait_block(t)
    \/ Blunt_wait_reacquire(t)
    \/ Blunt_copy_assign_lock(t) \/ Blunt_copy_assign(t)
    \/ Blunt_move_assign_lock(t) \/ Blunt_move_assign(t) \/ Blunt_assign_notify(t)
    \/ Blunt_copy_ctor_lock(t) \/ Blunt_copy_ctor(t)
    \/ Blunt_move_ctor_lock(t) \/ Blunt_move_ctor(t)
    \/ ThreadSafeQueue_move_assign_lock(t) \/ ThreadSafeQueue_move_assign(t)
    \/ ThreadSafeQueue_assign_notify(t)
    \/ ThreadSafeQueue_move_ctor(t)

NextRvalue == \E t \in Threads : RvalueStep(t)

SpecRvalue == InitRvalue /\ [][NextRvalue]_vars

\* Thread t is inside a move assignment of class k.
MoveAssigning(t, k) == Active(t) /\ Cur(t).k = k /\ Cur(t).op = "move_assign"

\* The move assignment of t asks for the destination's mutex_ alone: it goes on as soon
\* as that one is free, whoever owns the source's, and moves the storage owning the
\* destination's mutex_ and not the source's.
LocksTargetOnly(t) ==
    LET c == Cur(t) IN
    /\ (pc[t] = "start" /\ mutex_[c.q] = Null) => ~Blocked(t)
    /\ pc[t] = "crit" => (mutex_[c.q] = t /\ mutex_[c.o] # t)
    /\ pc[t] = "notify" => mutex_[c.q] # t

\* The move assignment of t asks for both mutexes: it waits while either has an owner
\* and moves the storage owning both.
LocksBoth(t) ==
    LET c == Cur(t) IN
    /\ (pc[t] = "start" /\ (mutex_[c.q] # Null \/ mutex_[c.o] # Null)) => Blocked(t)
    /\ pc[t] = "crit" => (mutex_[c.q] = t /\ mutex_[c.o] = t)
    /\ pc[t] = "notify" => (mutex_[c.q] # t /\ mutex_[c.o] # t)

\* The step that ends a move assignment takes one thread, if there is any, out of the
\* wait on the destination's isPopulated_.
NotifiesTarget(t) ==
    (Active(t) /\ Cur(t).op = "move_assign" /\ pc[t] = "notify" /\ todo'[t] # todo[t])
        => LET q == Cur(t).q IN
           IF isPopulated_[q] = {} THEN isPopulated_'[q] = {}
           ELSE \E w \in isPopulated_[q] :
                   isPopulated_'[q] = isPopulated_[q] \ {w} /\ pc'[w] = "wake"

\* C31 as stated: the move assignment of both coarse queues, BluntQueue and
\* ThreadSafeQueue, takes the destination's mutex_ and not the source's, so that it does
\* not wait for a thread that owns the source's mutex_, and it notifies a waiter of the
\* destination afterwards.
C31_MoveAssignLocksTargetOnly ==
    /\ [](\A t \in Threads :
            (MoveAssigning(t, "B") \/ MoveAssigning(t, "S")) => LocksTargetOnly(t))
    /\ [][\A t \in Threads : NotifiesTarget(t)]_vars

\* C31, amended: ThreadSafeQueue's move assignment takes the destination's mutex_ alone
\* and never waits for the source's; BluntQueue's takes both with one scoped_lock and
\* waits while another thread owns the source's mutex_; both release what they took and
\* then notify one waiter of the destination.
C31_MoveAssignLocks ==
    /\ [](\A t \in Threads :
            /\ MoveAssigning(t, "S") => LocksTargetOnly(t)
            /\ MoveAssigning(t, "B") => LocksBoth(t))
    /\ [][\A t \in Threads : NotifiesTarget(t)]_vars

\* A ThreadSafeQueue move assignment owns the destination's mutex_ and is about to move
\* the storage while thread 2, inside its call on the source, owns the source's mutex_.
C31_Witness ==
    /\ MoveAssigning(1, "S") /\ pc[1] = "crit"
    /\ mutex_[1] = 1 /\ mutex_[2] = 2
    /\ Active(2) /\ Cur(2).q = 2 /\ pc[2] = "crit"

\* The coarse queues whose storage_ the next step of thread t reads or writes.
Touches(t) ==
    IF ~Active(t) THEN {}
    ELSE LET c == Cur(t) IN
      IF c.k = "S" THEN
        IF c.op = "move_ctor" /\ pc[t] = "start" THEN {c.o}
        ELSE IF c.op = "move_assign" /\ pc[t] = "crit" THEN {c.q, c.o}
        ELSE {}
      ELSE IF c.k = "B" /\ pc[t] \in {"crit", "pred"} THEN
        IF c.op \in {"copy_ctor", "move_ctor"} THEN {c.o}
        ELSE IF c.op \in {"copy_assign", "move_assign", "swap", "equal"} THEN {c.q, c.o}
        ELSE {c.q}
      ELSE {}

\* Thread t is inside a move of a ThreadSafeQueue whose source is queue q.
MovesFrom(t, q) ==
    Active(t) /\ Cur(t).k = "S" /\ Cur(t).op \in {"move_ctor", "move_assign"} /\ Cur(t).o = q

\* C32 as stated: a thread about to read or write the storage_ of a coarse queue,
\* BluntQueue or ThreadSafeQueue, the source of a copy or a move included, owns the
\* mutex_ of that queue, and no two threads are about to touch the same storage_.
C32_StorageUnderLock ==
    /\ \A t \in Threads : \A q \in Touches(t) : mutex_[q] = t
    /\ \A t, u \in Threads : t # u => Touches(t) \cap Touches(u) = {}

\* C32, amended: a thread about to read or write the storage_ of a coarse queue owns
\* the mutex_ of that queue, except that the move constructor and the move assignment
\* of ThreadSafeQueue read and empty the storage_ of their source without its mutex_;
\* two threads are about to touch the same storage_ only if one of them is such a move
\* and the storage_ is that of its source.
C32_StorageUnderLockButMovedFrom ==
    /\ \A t \in Threads : \A q \in Touches(t) : mutex_[q] = t \/ MovesFrom(t, q)
    /\ \A t, u \in Threads :
          t # u => \A q \in Touches(t) \cap Touches(u) : MovesFrom(t, q) \/ MovesFrom(u, q)

\* A ThreadSafeQueue move assignment is about to move the elements of queue 2 owning
\* the mutex_ of queue 1 while the mutex_ of queue 2 has no owner.
C32_Witness ==
    /\ MovesFrom(1, 2) /\ pc[1] = "crit"
    /\ Touches(1) = {1, 2}
    /\ mutex_[1] = 1 /\ mutex_[2] = Null
    /\ storage_[2] # <<>>

\* ======================================================================
\* Copy assignment of a queue to itself
\* --------------------- SpecSelfAssign: one thread, one copy assignment, q = q included
\* The one call of thread 1: a = b for any two queues a and b of one class, the same
\* instance on both sides included.
InitSelfAssign ==
    \E k \in {"B", "F"}, i1, i2 \in Counting, a, b \in {1, 2} :
        Constructed(IF k = "B" THEN Items(i1, i2) ELSE NoItems,
                    IF k = "F" THEN Items(i1, i2) ELSE NoItems,
                    Script(<<Call("copy_assign", k, a, b, 0, "-")>>, <<>>, <<>>),
                    0, "self_assign", FALSE)

SelfAssignStep(t) ==
    \/ Blunt_copy_assign_lock(t) \/ Blunt_copy_assign(t) \/ Blunt_assign_notify(t)
    \/ Fine_copy_assign_alloc(t) \/ Fine_lock_traverse_push_lock(t) \/ Fine_get_tail(t)
    \/ Fine_lock_traverse_push(t)
    \/ Fine_copy_assign_lock(t) \/ Fine_copy_assign(t) \/ Fine_assign_notify(t)

NextSelfAssign == SelfAssignStep(1)

\* A thread that can take a step is scheduled.
SpecSelfAssign == InitSelfAssign /\ [][NextSelfAssign]_vars /\ WF_vars(SelfAssignStep(1))

\* C33. q = q, the same instance on both sides, returns and leaves the contents of q
\* as they were, for a BluntQueue and for a FineQueue.
C33_SelfAssignNoOp ==
    \A k \in {"B", "F"}, q \in {1, 2}, s \in Counting :
        (Active(1) /\ Cur(1) = Call("copy_assign", k, q, q, 0, "-") /\ Holds(k, q) = s)
            ~> (~Active(1) /\ Holds(k, q) = s)

\* ======================================================================
\* ThreadStorage
\* The test body: { ThreadStorage threads{ number }; threads[i] = std::thread{ f }; ... }
\* Slot i of the vector holds the std::thread of worker i of the model.

\* Everything but threads, main and todo.
queueVars == <<storage_, mutex_, isPopulated_, head_, tail_, headMutex_, tailMutex_,
               isPoppable_, alive, data_, next_, left, pc, loc, out, ret, made, ub,
               hPushed, hPopped, popBegun, overlap, tracking, scen>>

\* ThreadStorage(number): `number` default-constructed std::threads, none joinable.
ThreadStorage(number) == [i \in 1..number |-> "empty"]

\* t->joinable()
joinable(i) == threads[i] = "joinable"

\* threads[i] = std::thread{ f }: the new thread starts to make the calls of f.
ThreadStorage_assign(i, f) ==
    /\ ~ub
    /\ main.pc = "scope"
    /\ i \in DOMAIN threads
    /\ threads[i] = "empty"
    /\ threads' = [threads EXCEPT ![i] = "joinable"]
    /\ todo' = [todo EXCEPT ![i] = f]
    /\ UNCHANGED <<queueVars, main>>

\* The scope ends: ~ThreadStorage() starts with t{ begin() }.
ThreadStorage_dtor_begin ==
    /\ ~ub
    /\ main.pc = "scope"
    /\ main' = [pc |-> "loop", t |-> 1]
    /\ UNCHANGED <<queueVars, threads, todo>>

\* A destructor that steps over every slot, joinable or not.
ThreadStorage_dtor_loop_no_join ==
    /\ ~ub
    /\ main.pc = "loop"
    /\ main' = IF main.t > Len(threads) THEN [main EXCEPT !.pc = "done"]
               ELSE [main EXCEPT !.t = @ + 1]
    /\ UNCHANGED <<queueVars, threads, todo>>

\* for (...; t != end(); ++t) if (t->joinable()) ...: at end() the destructor returns,
\* at a joinable slot it calls join(), at any other slot it goes on to the next.
ThreadStorage_dtor_loop ==
    /\ ~ub
    /\ main.pc = "loop"
    /\ main' = IF main.t > Len(threads) THEN [main EXCEPT !.pc = "done"]
               ELSE IF joinable(main.t) THEN [main EXCEPT !.pc = "join"]
               ELSE [main EXCEPT !.t = @ + 1]
    /\ UNCHANGED <<queueVars, threads, todo>>

\* t->join() returns once the thread has finished; the slot is not joinable any more.
ThreadStorage_join ==
    /\ ~ub
    /\ main.pc = "join"
    /\ ~Active(main.t)
    /\ threads' = [threads EXCEPT ![main.t] = "joined"]
    /\ main' = [pc |-> "loop", t |-> main.t + 1]
    /\ UNCHANGED <<queueVars, todo>>

\* ------------- SpecJoin: a ThreadStorage, its threads on BluntQueue 1, the scope's end
\* What the tests give a thread to do: a push or a wait_and_pop on the queue.
Bodies == {Pushes("B", 1), Waits("B", "val")}

InitJoin ==
    \E number \in Threads, items \in Counting :
        ConstructedIn([NoItems EXCEPT ![1] = items], NoItems, NoScript, 0, "join", FALSE,
                      ThreadStorage(number), [pc |-> "scope", t |-> 0])

JoinStep(t) ==
    \/ Blunt_push_lock(t) \/ Blunt_push(t) \/ Blunt_push_notify(t)
    \/ Blunt_wait_and_pop_lock(t) \/ Blunt_wait_and_pop(t) \/ Blunt_wait_block(t)
    \/ Blunt_wait_reacquire(t)

DtorStep == ThreadStorage_dtor_loop \/ ThreadStorage_join

NextJoin ==
    \/ \E i \in Threads, f \in Bodies : ThreadStorage_assign(i, f)
    \/ ThreadStorage_dtor_begin
    \/ DtorStep
    \/ \E t \in Threads : JoinStep(t)

\* The destructor, once begun, goes on whenever it can.
SpecJoin == InitJoin /\ [][NextJoin]_vars /\ WF_vars(DtorStep)

\* C34. ~ThreadStorage() returns only after every thread assigned to a slot has
\* finished and has been joined: behind the iterator, and so everywhere once the
\* destructor has returned, no slot is joinable and the thread of every joined slot has
\* made all its calls.  A slot that never got a thread is stepped over without
\* blocking: the destructor is in join() at joinable slots only, and from a slot
\* without a thread it moves on to the next.
C34_JoinsOnScopeExit ==
    /\ [](\A i \in DOMAIN threads :
            /\ (main.pc \in {"loop", "join", "done"} /\ i < main.t) => ~joinable(i)
            /\ main.pc = "done" => ~joinable(i)
            /\ threads[i] = "joined" => ~Active(i))
    /\ [](main.pc = "join" => joinable(main.t))
    /\ \A i \in Threads :
          (main.pc = "loop" /\ main.t = i /\ i \in DOMAIN threads /\ threads[i] = "empty")
              ~> (main.pc = "loop" /\ main.t = i + 1)

\* The destructor has returned from a ThreadStorage with a slot it joined and a slot
\* that never had a thread.
C34_Witness ==
    /\ main.pc = "done"
    /\ \E i, j \in DOMAIN threads : threads[i] = "joined" /\ threads[j] = "empty"


====
